---- MODULE Spec2Model ----
(***************************************************************************)
(* The filter-chain engine of src/src/modules/module-filter-chain.c:       *)
(* the graph builder (load_node, parse_link), the graph planner            *)
(* (setup_graph with find_next_node, setup_output_port) and the state      *)
(* they leave behind.                                                      *)
(*                                                                         *)
(* A port reference string "<node>:<port>" / "<port>" is modelled by what  *)
(* find_port makes of it: whether it holds a colon, the text before it,    *)
(* and the text after it together with the number spa_atou32 reads from    *)
(* that text (SPA_ID_INVALID when it is no number).                        *)
(***************************************************************************)
EXTENDS Integers, Sequences, FiniteSets, TLC

\* ------------------------------------------------------------ bounds
\* nodes[] entries of a description
MaxNodes == 2
\* links[] entries of a description
MaxLinks == 2
\* the instantiate call that may fail is one of the first MaxFail calls
MaxFail == 2

\* ------------------------------------------------- program constants
MAX_HNDL == 64
\* the cap parse_audio_info puts on audio.channels. Its #define is not in
\* these sources; the model takes a cap above MAX_HNDL, so that the
\* planner's own "too many channels" check decides what it is given
SPA_AUDIO_MAX_CHANNELS == 128
\* uint32 with all bits set, written as the two's complement -1
SPA_ID_INVALID == -1

\* a NULL handle / port / buffer pointer (handles, ports and buffers are tuples)
NULL == <<>>
\* a NULL descriptor pointer (descriptors are named by their label)
NoDesc == "NULL"

\* --------------------------------------------------- plugin catalogue
\* The fc_descriptor port lists the plugin loader hands out, by label.
\* "copy" and "mixer" are the builtin filters of the module documentation
\* (the mixer with the first two of its inputs and gains).
FcPort(n, d, k, v) == [name |-> n, dir |-> d, kind |-> k, def |-> v]

FcPorts(label) ==
    CASE label = "copy" ->
            << FcPort("In", "in", "audio", 0), FcPort("Out", "out", "audio", 0) >>
      [] label = "mixer" ->
            << FcPort("Out", "out", "audio", 0),
               FcPort("In 1", "in", "audio", 0), FcPort("In 2", "in", "audio", 0),
               FcPort("Gain 1", "in", "control", 1), FcPort("Gain 2", "in", "control", 1) >>
      \* a descriptor without audio ports
      [] label = "ctl" ->
            << FcPort("Level", "in", "control", 0), FcPort("Peak", "out", "control", 0) >>

Labels == {"copy", "mixer"}

\* FC_DESCRIPTOR_SUPPORTS_NULL_DATA in the flags of the descriptor
SupportsNullData(label) == label = "mixer"

\* the labels make_desc of a plugin knows; the plugin of type "builtin" and
\* a "ladspa" plugin under the path "p1" that has a "copy" of its own
PluginLabels(type, path) ==
    CASE type = "builtin" -> {"copy", "mixer", "ctl"}
      [] type = "ladspa" /\ path = "p1" -> {"copy"}
      [] OTHER -> {}
\* the loader of the type returns a plugin: in a build without HAVE_LILV
\* plugin_load has no loader for "lv2"
PluginLoads(type, path) == type = "builtin" \/ (type = "ladspa" /\ path = "p1")

\* the name of node k of the description
NodeName(k) == <<"n1", "n2", "n3", "n4">>[k]

\* descriptor_load: the ports of one direction and kind, in port order (0-based p)
RECURSIVE Categorize(_, _, _, _)
Categorize(ports, p, dir, kind) ==
    IF p >= Len(ports) THEN <<>>
    ELSE (IF ports[p + 1].dir = dir /\ ports[p + 1].kind = kind THEN <<p>> ELSE <<>>)
         \o Categorize(ports, p + 1, dir, kind)

descriptor_load(label) ==
    LET ports == FcPorts(label)
        input == Categorize(ports, 0, "in", "audio")
        output == Categorize(ports, 0, "out", "audio")
        control == Categorize(ports, 0, "in", "control")
        notify == Categorize(ports, 0, "out", "control")
    IN [label |-> label,
        n_input |-> Len(input), n_output |-> Len(output),
        n_control |-> Len(control), n_notify |-> Len(notify),
        input |-> input, output |-> output, control |-> control, notify |-> notify,
        default_control |-> [i \in 1..Len(control) |-> ports[control[i] + 1].def]]

\* the descriptors of the labels nodes are made of
Desc == [l \in Labels |-> descriptor_load(l)]

\* ------------------------------------------------------------- state
VARIABLES
    node_list,          \* graph.node_list: the nodes in description order
    link_list,          \* graph.link_list: the links in creation order
    graph,              \* the planning artifacts of struct graph
    capture_channels,   \* impl.capture_info.channels
    playback_channels,  \* impl.playback_info.channels
    hstate,             \* every handle instantiate returned -> "active" | "cleaned"
    phase,              \* "nodes" | "links" | "planned" | "failed"
    res,                \* the result of the last builder / planner call
    call,               \* the last call, with its arguments where a property reads them
    fc_callbacks,       \* which of activate / deactivate the descriptors provide
    events,             \* the plugin and stream calls the last handler made, in order
    out_datas,          \* the datas of the playback buffer after the last period
    plugin_list,        \* impl.plugin_list: the loaded plugins with their descriptors
    race,               \* the data loop and the main loop, where they run at once
    wq                  \* struct pw_work_queue, with the calls made to it

vars == << node_list, link_list, graph, capture_channels, playback_channels,
           hstate, phase, res, call, fc_callbacks, events, out_datas, plugin_list,
           race, wq >>

\* struct port after load_node
NewPort(i, p, v) ==
    [idx |-> i, p |-> p, n_links |-> 0, link_list |-> <<>>,
     external |-> SPA_ID_INVALID, control_data |-> v, audio_data |-> <<>>]

\* struct node after load_node
NewNode(name, label) ==
    LET desc == descriptor_load(label)
    IN [name |-> name, desc |-> label, plugin |-> << "builtin", "builtin" >>,
        n_deps |-> 0, visited |-> FALSE,
        n_hndl |-> 0, hndl |-> <<>>,
        input_port |-> [i \in 1..desc.n_input |-> NewPort(i - 1, desc.input[i], 0)],
        output_port |-> [i \in 1..desc.n_output |-> NewPort(i - 1, desc.output[i], 0)],
        control_port |-> [i \in 1..desc.n_control |->
                              NewPort(i - 1, desc.control[i], desc.default_control[i])],
        notify_port |-> [i \in 1..desc.n_notify |-> NewPort(i - 1, desc.notify[i], 0)]]

\* the main loop makes no store and the data loop is in no period
NoRace == [pc |-> 0, stores |-> <<>>, update |-> <<>>, reads |-> <<>>,
           running |-> FALSE, reset |-> 0]

\* pw_work_queue_new: both lists empty, no item handed out, no wakeup
\* signalled; calls and added record the callbacks invoked and the items
\* added
NoWork ==
    [work_list |-> <<>>, free_list |-> 0, counter |-> 0, n_queued |-> 0,
     wakeup |-> FALSE, calls |-> <<>>, added |-> <<>>]

EmptyGraph ==
    [n_input |-> 0, input |-> <<>>, n_output |-> 0, output |-> <<>>,
     n_hndl |-> 0, hndl |-> <<>>, n_control |-> 0, control_port |-> <<>>]

Init ==
    /\ node_list = <<>>
    /\ link_list = <<>>
    /\ graph = EmptyGraph
    /\ capture_channels = 0
    /\ playback_channels = 0
    /\ hstate = <<>>
    /\ phase = "nodes"
    /\ res = "OK"
    /\ call = [op |-> "none"]
    /\ fc_callbacks = [activate |-> TRUE, deactivate |-> TRUE]
    /\ events = <<>>
    /\ out_datas = <<>>
    /\ plugin_list = <<>>
    /\ race = NoRace
    /\ wq = NoWork

\* ---------------------------------------------------------- builder
\* a port reference: col = the string holds a ':', node = the text before
\* it, port = the text after it with the number it spells
PortId(n) == [id |-> n, name |-> <<"0", "1", "2", "3">>[n + 1]]
PortNamed(s) == [id |-> SPA_ID_INVALID, name |-> s]
Ref(col, node, port) == [col |-> col, node |-> node, port |-> port]

\* find_node: the index of the first node of that name, 0 when there is none
find_node(nodes, name) ==
    IF \E k \in 1..Len(nodes) : nodes[k].name = name
    THEN CHOOSE k \in 1..Len(nodes) :
            /\ nodes[k].name = name
            /\ \A j \in 1..(k - 1) : nodes[j].name # name
    ELSE 0

\* the port array find_port searches for a descriptor flag
PortArray(node, kind) ==
    CASE kind = "in" -> node.input_port
      [] kind = "out" -> node.output_port
      [] kind = "control" -> node.control_port
      [] kind = "notify" -> node.notify_port

\* find_port that looks in the default node when no node has the name
find_port_DefaultOnMiss(nodes, def_node, ref, kind) ==
    LET Scan(k, ports, fc) ==
            LET hit(i) == i = ref.port.id \/ fc[ports[i + 1].p + 1].name = ref.port.name
            IN IF \E i \in 0..(Len(ports) - 1) : hit(i)
               THEN << k, CHOOSE i \in 0..(Len(ports) - 1) :
                              hit(i) /\ \A j \in 0..(i - 1) : ~hit(j) >>
               ELSE NULL
        InNode(k) ==
            IF k = 0 THEN NULL
            ELSE Scan(k, PortArray(nodes[k], kind), FcPorts(nodes[k].desc))
    IN InNode(IF ref.col /\ find_node(nodes, ref.node) # 0
              THEN find_node(nodes, ref.node) ELSE def_node)

\* find_port: << node index, 0-based index in the port array >>, or NULL
find_port(nodes, def_node, ref, kind) ==
    LET Scan(k, ports, fc) ==
            LET hit(i) == i = ref.port.id \/ fc[ports[i + 1].p + 1].name = ref.port.name
            IN IF \E i \in 0..(Len(ports) - 1) : hit(i)
               THEN << k, CHOOSE i \in 0..(Len(ports) - 1) :
                              hit(i) /\ \A j \in 0..(i - 1) : ~hit(j) >>
               ELSE NULL
        InNode(k) ==
            IF k = 0 THEN NULL
            ELSE Scan(k, PortArray(nodes[k], kind), FcPorts(nodes[k].desc))
    IN InNode(IF ref.col THEN find_node(nodes, ref.node) ELSE def_node)

\* ------------------------------------------------------------ plugins
\* struct plugin and struct descriptor as plugin_load / descriptor_load
\* make them
Plugin(type, path) == [type |-> type, path |-> path, ref |-> 1, descriptor_list |-> <<>>]
Descriptor(label) == [label |-> label, ref |-> 1]

\* the place of the first plugin of that type and path, 0 for none
PluginAt(plugins, type, path) ==
    LET hit(h) == plugins[h].type = type /\ plugins[h].path = path
    IN IF \E h \in 1..Len(plugins) : hit(h)
       THEN CHOOSE h \in 1..Len(plugins) : hit(h) /\ \A j \in 1..(h - 1) : ~hit(j)
       ELSE 0

\* the place of the first descriptor of that label in a descriptor list
DescriptorAt(list, label) ==
    LET hit(d) == list[d].label = label
    IN IF \E d \in 1..Len(list) : hit(d)
       THEN CHOOSE d \in 1..Len(list) : hit(d) /\ \A j \in 1..(d - 1) : ~hit(j)
       ELSE 0

\* spa_list_remove of entry i
Without(list, i) == SubSeq(list, 1, i - 1) \o SubSeq(list, i + 1, Len(list))

\* plugin_unref of the plugin at place h
plugin_unref(plugins, h) ==
    IF plugins[h].ref - 1 > 0 THEN [plugins EXCEPT ![h].ref = @ - 1]
    ELSE Without(plugins, h)

\* plugin_load making a new plugin without a look at the list
plugin_load_NoLookup(plugins, type, path) ==
    IF ~PluginLoads(type, path) THEN [plugins |-> plugins, hndl |-> 0]
    ELSE [plugins |-> Append(plugins, Plugin(type, path)), hndl |-> Len(plugins) + 1]

\* plugin_load: [plugins, hndl], hndl = 0 for NULL
plugin_load(plugins, type, path) ==
    LET Found(h) ==
            IF h # 0 THEN [plugins |-> [plugins EXCEPT ![h].ref = @ + 1], hndl |-> h]
            ELSE IF ~PluginLoads(type, path) THEN [plugins |-> plugins, hndl |-> 0]
            ELSE [plugins |-> Append(plugins, Plugin(type, path)),
                  hndl |-> Len(plugins) + 1]
    IN Found(PluginAt(plugins, type, path))

\* descriptor_unref of the descriptor at place d of the list of plugin h
descriptor_unref(plugins, h, d) ==
    IF plugins[h].descriptor_list[d].ref - 1 > 0
    THEN [plugins EXCEPT ![h].descriptor_list[d].ref = @ - 1]
    ELSE plugin_unref([plugins EXCEPT ![h].descriptor_list = Without(@, d)], h)

\* descriptor_load leaving by its exit label without descriptor_unref
descriptor_load_plugins_NoUnref(plugins, type, path, label) ==
    LET Made(pl, h) ==
            IF label \notin PluginLabels(type, path)
            THEN [plugins |-> pl, res |-> "ENOENT"]
            ELSE IF descriptor_load(label).n_input = 0 /\ descriptor_load(label).n_output = 0
            THEN [plugins |-> pl, res |-> "ENOTSUP"]
            ELSE [plugins |-> [pl EXCEPT ![h].descriptor_list = Append(@, Descriptor(label))],
                  res |-> "OK"]
        Listed(pl, h, d) ==
            IF d # 0
            THEN [plugins |-> plugin_unref([pl EXCEPT ![h].descriptor_list[d].ref = @ + 1], h),
                  res |-> "OK"]
            ELSE Made(pl, h)
        Loaded(r) ==
            IF r.hndl = 0 THEN [plugins |-> r.plugins, res |-> "EINVAL"]
            ELSE Listed(r.plugins, r.hndl,
                        DescriptorAt(r.plugins[r.hndl].descriptor_list, label))
    IN Loaded(plugin_load(plugins, type, path))

\* descriptor_load, the reference counts: [plugins, res]. A descriptor that
\* is listed gets one more ref and the plugin's ref is given back; a new one
\* keeps the plugin's ref, and on the exit label descriptor_unref of the
\* descriptor, which is on no list yet, gives it back
descriptor_load_plugins(plugins, type, path, label) ==
    LET Made(pl, h) ==
            IF label \notin PluginLabels(type, path)
            THEN [plugins |-> plugin_unref(pl, h), res |-> "ENOENT"]
            ELSE IF descriptor_load(label).n_input = 0 /\ descriptor_load(label).n_output = 0
            THEN [plugins |-> plugin_unref(pl, h), res |-> "ENOTSUP"]
            ELSE [plugins |-> [pl EXCEPT ![h].descriptor_list = Append(@, Descriptor(label))],
                  res |-> "OK"]
        Listed(pl, h, d) ==
            IF d # 0
            THEN [plugins |-> plugin_unref([pl EXCEPT ![h].descriptor_list[d].ref = @ + 1], h),
                  res |-> "OK"]
            ELSE Made(pl, h)
        Loaded(r) ==
            IF r.hndl = 0 THEN [plugins |-> r.plugins, res |-> "EINVAL"]
            ELSE Listed(r.plugins, r.hndl,
                        DescriptorAt(r.plugins[r.hndl].descriptor_list, label))
    IN Loaded(plugin_load(plugins, type, path))

\* ------------------------------------------------------ control values

\* control_data is a float: the numbers are written as integers, a NaN as
\* an integer no number equals
NaN == -2147483647
\* the C comparison a == b of two floats
float_eq(a, b) == a # NaN /\ b # NaN /\ a = b

\* the value of a (name, value) pair of a Props update; "none" is any pod
\* that is not a float, double, int or bool
PodValue(type, v) == [type |-> type, v |-> v]
Pair(name, val) == [name |-> name, val |-> val]

\* set_control_value counting a name that does not resolve as a change
set_control_value_CountsUnknown(nodes, def_node, name, val) ==
    LET Set(port) ==
            IF port = NULL THEN [nodes |-> nodes, changed |-> 1]
            ELSE LET Store(old, new) ==
                         [nodes |-> [nodes EXCEPT
                                        ![port[1]].control_port[port[2] + 1].control_data = new],
                          changed |-> IF float_eq(old, new) THEN 0 ELSE 1]
                 IN Store(nodes[port[1]].control_port[port[2] + 1].control_data,
                          CASE val.type \in {"float", "double", "int"} -> val.v
                            [] val.type = "bool" -> IF val.v # 0 THEN 1 ELSE 0
                            [] OTHER ->
                                 Desc[nodes[port[1]].desc].default_control[
                                     nodes[port[1]].control_port[port[2] + 1].idx + 1])
    IN Set(find_port(nodes, def_node, name, "control"))

\* set_control_value adding the value to the one the port holds
set_control_value_Accumulate(nodes, def_node, name, val) ==
    LET Set(port) ==
            IF port = NULL THEN [nodes |-> nodes, changed |-> 0]
            ELSE LET Store(old, new) ==
                         [nodes |-> [nodes EXCEPT
                                        ![port[1]].control_port[port[2] + 1].control_data =
                                            IF old = NaN \/ new = NaN THEN NaN ELSE old + new],
                          changed |-> IF new = 0 THEN 0 ELSE 1]
                 IN Store(nodes[port[1]].control_port[port[2] + 1].control_data,
                          CASE val.type \in {"float", "double", "int"} -> val.v
                            [] val.type = "bool" -> IF val.v # 0 THEN 1 ELSE 0
                            [] OTHER ->
                                 Desc[nodes[port[1]].desc].default_control[
                                     nodes[port[1]].control_port[port[2] + 1].idx + 1])
    IN Set(find_port(nodes, def_node, name, "control"))

\* set_control_value: [nodes, changed]
set_control_value(nodes, def_node, name, val) ==
    LET Set(port) ==
            IF port = NULL THEN [nodes |-> nodes, changed |-> 0]
            ELSE LET Store(old, new) ==
                         [nodes |-> [nodes EXCEPT
                                        ![port[1]].control_port[port[2] + 1].control_data = new],
                          changed |-> IF float_eq(old, new) THEN 0 ELSE 1]
                 IN Store(nodes[port[1]].control_port[port[2] + 1].control_data,
                          CASE val.type \in {"float", "double", "int"} -> val.v
                            [] val.type = "bool" -> IF val.v # 0 THEN 1 ELSE 0
                            [] OTHER ->
                                 Desc[nodes[port[1]].desc].default_control[
                                     nodes[port[1]].control_port[port[2] + 1].idx + 1])
    IN Set(find_port(nodes, def_node, name, "control"))


\* parse_control: the entries of the control block of the node being
\* made, which is not on the node list yet. A value that is no number is
\* ignored. st = [nodes, node]
RECURSIVE parse_control(_, _)
parse_control(st, control) ==
    IF control = <<>> THEN st
    ELSE LET Named(r) == [nodes |-> r.nodes, node |-> st.node]
             Own(r) == [nodes |-> st.nodes, node |-> r.nodes[1]]
             Entry(c) ==
                 IF c.val.type = "none" THEN st
                 ELSE IF c.name.col
                 THEN Named(set_control_value(st.nodes, 0, c.name, c.val))
                 ELSE Own(set_control_value(<< st.node >>, 1, c.name, c.val))
         IN parse_control(Entry(Head(control)), Tail(control))

\* one entry of nodes[]
NodeSpec(type, plugin, label, control) ==
    [type |-> type, plugin |-> plugin, label |-> label, control |-> control]

\* load_node: [nodes, plugins, res]. An entry that gives no name stands for
\* the entry of that place with the name n1, n2, ...
load_node(nodes, plugins, ns) ==
    LET Made(st) == Append(st.nodes, st.node)
        Loaded(path, r) ==
            IF r.res # "OK" THEN [nodes |-> nodes, plugins |-> r.plugins, res |-> r.res]
            ELSE [nodes |-> Made(parse_control(
                                [nodes |-> nodes,
                                 node |-> [NewNode(IF "name" \in DOMAIN ns THEN ns.name
                                                   ELSE NodeName(Len(nodes) + 1),
                                                   ns.label)
                                              EXCEPT !.plugin = << ns.type, path >>]],
                                ns.control)),
                  plugins |-> r.plugins, res |-> "OK"]
        Typed(path) ==
            Loaded(path, descriptor_load_plugins(plugins, ns.type, path, ns.label))
    IN IF ns.type \notin { "builtin", "ladspa", "lv2" }
       THEN [nodes |-> nodes, plugins |-> plugins, res |-> "ENOTSUP"]
       ELSE Typed(IF ns.type = "builtin" THEN "builtin" ELSE ns.plugin)

\* load_node as load_graph calls it: a failed entry ends load_graph
LoadNode(ns) ==
    /\ phase = "nodes"
    /\ Len(node_list) < MaxNodes
    /\ LET Node(r) ==
               /\ node_list' = r.nodes
               /\ plugin_list' = r.plugins
               /\ res' = r.res
               /\ phase' = IF r.res = "OK" THEN "nodes" ELSE "failed"
       IN Node(load_node(node_list, plugin_list, ns))
    /\ call' = [op |-> "load_node", node |-> ns]
    /\ UNCHANGED << link_list, graph, capture_channels, playback_channels, hstate,
                    fc_callbacks, events, out_datas, race, wq >>

\* -------------------------------------------------------------- links
\* parse_link without its "more than 1 link" check
parse_link_res_NoFanInCheck(nodes, output, input) ==
    LET out_port == find_port(nodes, 1, output, "out")
        in_port == find_port(nodes, Len(nodes), input, "in")
    IN IF Len(nodes) = 0 THEN "EINVAL"
       ELSE IF out_port = NULL THEN "ENOENT"
       ELSE IF in_port = NULL THEN "ENOENT"
       ELSE "OK"

\* the result of parse_link for one links[] entry
parse_link_res(nodes, output, input) ==
    LET out_port == find_port(nodes, 1, output, "out")
        in_port == find_port(nodes, Len(nodes), input, "in")
    IN IF Len(nodes) = 0 THEN "EINVAL"
       ELSE IF out_port = NULL THEN "ENOENT"
       ELSE IF in_port = NULL THEN "ENOENT"
       ELSE IF nodes[in_port[1]].input_port[in_port[2] + 1].n_links > 0 THEN "ENOTSUP"
       ELSE "OK"

\* LinkPorts without the n_deps++ of the input's node
LinkPorts_NoDeps(nodes, out_port, in_port, id) ==
    LET n1 == [nodes EXCEPT
                  ![out_port[1]].output_port[out_port[2] + 1].link_list = Append(@, id),
                  ![out_port[1]].output_port[out_port[2] + 1].n_links = @ + 1]
    IN [n1 EXCEPT
           ![in_port[1]].input_port[in_port[2] + 1].link_list = Append(@, id),
           ![in_port[1]].input_port[in_port[2] + 1].n_links = @ + 1]

\* the nodes after parse_link made the link with index id
LinkPorts(nodes, out_port, in_port, id) ==
    LET n1 == [nodes EXCEPT
                  ![out_port[1]].output_port[out_port[2] + 1].link_list = Append(@, id),
                  ![out_port[1]].output_port[out_port[2] + 1].n_links = @ + 1]
        n2 == [n1 EXCEPT
                  ![in_port[1]].input_port[in_port[2] + 1].link_list = Append(@, id),
                  ![in_port[1]].input_port[in_port[2] + 1].n_links = @ + 1]
    IN [n2 EXCEPT ![in_port[1]].n_deps = @ + 1]

\* parse_link as load_graph calls it: a failed entry ends load_graph
ParseLink(output, input) ==
    /\ phase \in {"nodes", "links"}
    /\ LET Link(r, out_port, in_port) ==
               /\ res' = r
               /\ r = "OK" => Len(link_list) < MaxLinks
               /\ IF r = "OK"
                  THEN /\ link_list' = Append(link_list,
                                               [output |-> out_port, input |-> in_port])
                       /\ node_list' = LinkPorts(node_list, out_port, in_port,
                                                 Len(link_list) + 1)
                       /\ phase' = "links"
                  ELSE /\ UNCHANGED << link_list, node_list >>
                       /\ phase' = "failed"
       IN Link(parse_link_res(node_list, output, input),
               find_port(node_list, 1, output, "out"),
               find_port(node_list, Len(node_list), input, "in"))
    /\ call' = [op |-> "parse_link"]
    /\ UNCHANGED << graph, capture_channels, playback_channels, hstate,
                    fc_callbacks, events, out_datas, plugin_list, race, wq >>

\* ---------------------------------------------------------- planner

\* node->hndl[i], NULL where nothing was stored
Hndl(node, i) == IF i < Len(node.hndl) THEN node.hndl[i + 1] ELSE NULL

\* inputs[] / outputs[] of the description: absent, or the array's strings
Absent == [present |-> FALSE, v |-> <<>>]
Array(v) == [present |-> TRUE, v |-> v]
NullRef == Ref(FALSE, "", PortNamed("null"))

\* count_array
count_array(json) == Len(json.v)

\* parse_audio_info: audio.channels as a stream's properties give it
parse_audio_info(channels) ==
    IF channels < SPA_AUDIO_MAX_CHANNELS THEN channels ELSE SPA_AUDIO_MAX_CHANNELS

\* Dimension without the comparison of the two ratios
Dimension_NoRatioCheck(n_input, n_output, cap, play) ==
    LET n_hndl == cap \div n_input
    IN IF n_hndl > MAX_HNDL THEN [res |-> "EINVAL", n_hndl |-> n_hndl]
       ELSE IF n_hndl = 0 THEN [res |-> "OK", n_hndl |-> 1]
       ELSE [res |-> "OK", n_hndl |-> n_hndl]

\* Dimension without the MAX_HNDL check
Dimension_NoMaxCheck(n_input, n_output, cap, play) ==
    LET n_hndl == cap \div n_input
    IN IF n_hndl # play \div n_output THEN [res |-> "EINVAL", n_hndl |-> n_hndl]
       ELSE IF n_hndl = 0 THEN [res |-> "OK", n_hndl |-> 1]
       ELSE [res |-> "OK", n_hndl |-> n_hndl]

\* setup_graph, the instance count: the result and n_hndl for the counts
\* of graph inputs/outputs and the stream channels (after their defaults)
Dimension(n_input, n_output, cap, play) ==
    LET n_hndl == cap \div n_input
    IN IF n_hndl # play \div n_output THEN [res |-> "EINVAL", n_hndl |-> n_hndl]
       ELSE IF n_hndl > MAX_HNDL THEN [res |-> "EINVAL", n_hndl |-> n_hndl]
       ELSE IF n_hndl = 0 THEN [res |-> "OK", n_hndl |-> 1]
       ELSE [res |-> "OK", n_hndl |-> n_hndl]

\* a call on a plugin handle or on a stream
Ev(op, hndl, port, data, n) == [op |-> op, hndl |-> hndl, port |-> port, data |-> data, n |-> n]

\* the number of the instantiate call for instance i of node k
CallNo(k, i, n_hndl) == (k - 1) * n_hndl + i + 1

\* Instantiate going on after an instantiate that returned NULL
Instantiate_IgnoreNull(nodes, n_hndl, fail_at) ==
    LET f == IF fail_at = 0 THEN Len(nodes) * n_hndl + 1 ELSE fail_at
        made(k) == Cardinality({i \in 0..(n_hndl - 1) : CallNo(k, i, n_hndl) < f})
    IN [nodes |-> [k \in 1..Len(nodes) |->
                      [nodes[k] EXCEPT !.n_hndl = made(k),
                                       !.hndl = [i \in 1..made(k) |-> << k, i - 1 >>]]],
        ok |-> TRUE]

\* setup_graph, the instantiate loop: call fail_at (0: none) returns NULL
\* and ends the loop; every handle made before it was connected and activated
Instantiate(nodes, n_hndl, fail_at) ==
    LET f == IF fail_at = 0 THEN Len(nodes) * n_hndl + 1 ELSE fail_at
        made(k) == Cardinality({i \in 0..(n_hndl - 1) : CallNo(k, i, n_hndl) < f})
    IN [nodes |-> [k \in 1..Len(nodes) |->
                      [nodes[k] EXCEPT !.n_hndl = made(k),
                                       !.hndl = [i \in 1..made(k) |-> << k, i - 1 >>]]],
        ok |-> f > Len(nodes) * n_hndl]

\* HandleCalls with activate before the ports are connected
HandleCalls_ActivateFirst(node, k, i, cb) ==
    LET Calls(desc, h, sd, dd) ==
            << Ev("instantiate", h, 0, NULL, i) >>
            \o (IF cb.activate THEN << Ev("activate", h, 0, NULL, 0) >> ELSE <<>>)
            \o [j \in 1..desc.n_input |-> Ev("connect_port", h, desc.input[j], sd, 0)]
            \o [j \in 1..desc.n_output |-> Ev("connect_port", h, desc.output[j], dd, 0)]
            \o [j \in 1..desc.n_control |->
                   Ev("connect_port", h, node.control_port[j].p,
                      << "control", k, j - 1 >>, 0)]
            \o [j \in 1..desc.n_notify |->
                   Ev("connect_port", h, node.notify_port[j].p,
                      << "notify", k, j - 1 >>, 0)]
    IN Calls(Desc[node.desc], << k, i >>,
             IF SupportsNullData(node.desc) THEN NULL ELSE << "silence" >>,
             IF SupportsNullData(node.desc) THEN NULL ELSE << "discard" >>)

\* setup_graph, the calls on instance i of node k after a successful
\* instantiate: the audio inputs on silence_data, the audio outputs on
\* discard_data (NULL for both with SUPPORTS_NULL_DATA), the control and
\* notify ports on their control_data, then activate where there is one
HandleCalls(node, k, i, cb) ==
    LET Calls(desc, h, sd, dd) ==
            << Ev("instantiate", h, 0, NULL, i) >>
            \o [j \in 1..desc.n_input |-> Ev("connect_port", h, desc.input[j], sd, 0)]
            \o [j \in 1..desc.n_output |-> Ev("connect_port", h, desc.output[j], dd, 0)]
            \o [j \in 1..desc.n_control |->
                   Ev("connect_port", h, node.control_port[j].p,
                      << "control", k, j - 1 >>, 0)]
            \o [j \in 1..desc.n_notify |->
                   Ev("connect_port", h, node.notify_port[j].p,
                      << "notify", k, j - 1 >>, 0)]
            \o (IF cb.activate THEN << Ev("activate", h, 0, NULL, 0) >> ELSE <<>>)
    IN Calls(Desc[node.desc], << k, i >>,
             IF SupportsNullData(node.desc) THEN NULL ELSE << "silence" >>,
             IF SupportsNullData(node.desc) THEN NULL ELSE << "discard" >>)

\* the calls of the instantiate loop on node k of which made instances were
\* made; failed: the next instantiate returned NULL
NodeCalls(node, k, made, failed, cb) ==
    LET Block(len) ==
            [c \in 1..(made * len) |->
                HandleCalls(node, k, (c - 1) \div len, cb)[((c - 1) % len) + 1]]
    IN Block(Len(HandleCalls(node, k, 0, cb)))
       \o (IF failed THEN << Ev("instantiate", NULL, 0, NULL, made) >> ELSE <<>>)

\* the calls of the instantiate loop, node by node up to the call that
\* fails (fail_at, 0: none)
RECURSIVE InstantiateCalls(_, _, _, _, _)
InstantiateCalls(nodes, n_hndl, fail_at, cb, k) ==
    IF k > Len(nodes) \/ (fail_at # 0 /\ CallNo(k, 0, n_hndl) > fail_at) THEN <<>>
    ELSE NodeCalls(nodes[k], k,
                   Cardinality({i \in 0..(n_hndl - 1) :
                                   fail_at = 0 \/ CallNo(k, i, n_hndl) < fail_at}),
                   fail_at # 0 /\ fail_at <= CallNo(k, n_hndl - 1, n_hndl), cb)
         \o InstantiateCalls(nodes, n_hndl, fail_at, cb, k + 1)

\* the cleanup calls of the error label and of node_free on a node
CleanupCalls(node) ==
    [c \in 1..node.n_hndl |-> Ev("cleanup", node.hndl[c], 0, NULL, 0)]

\* setup_graph, the error label: the calls, node by node
RECURSIVE ErrorCalls(_, _)
ErrorCalls(nodes, k) ==
    IF k > Len(nodes) THEN <<>>
    ELSE CleanupCalls(nodes[k]) \o ErrorCalls(nodes, k + 1)

\* the handles of a node list, all in one state
HandlesOf(nodes, state) ==
    LET made == UNION {{<< k, i >> : i \in 0..(nodes[k].n_hndl - 1)} : k \in 1..Len(nodes)}
    IN [h \in made |-> state]

GraphPort(d, h, p) == [desc |-> d, hndl |-> h, port |-> p]

\* the port a find_port result names
PortAt(nodes, kind, port) == PortArray(nodes[port[1]], kind)[port[2] + 1]

SetExternal(nodes, kind, port, slot) ==
    IF kind = "in"
    THEN [nodes EXCEPT ![port[1]].input_port[port[2] + 1].external = slot]
    ELSE [nodes EXCEPT ![port[1]].output_port[port[2] + 1].external = slot]

\* setup_graph, the while loop over the strings of inputs[] (kind "in",
\* searched from the first node) or outputs[] (kind "out", from the last)
\* for instance i. st = [nodes, slots, res]
RECURSIVE BindArray(_, _, _, _, _)
BindArray(st, entries, def_node, kind, i) ==
    IF entries = <<>> THEN st
    ELSE LET Entry(v, port) ==
                 IF v = NullRef
                 THEN BindArray([st EXCEPT !.slots = Append(@, GraphPort(NoDesc, NULL, 0))],
                                Tail(entries), def_node, kind, i)
                 ELSE IF port = NULL THEN [st EXCEPT !.res = "ENOENT"]
                 ELSE IF i = 0 /\ PortAt(st.nodes, kind, port).external # SPA_ID_INVALID
                      THEN [st EXCEPT !.res = "EBUSY"]
                 ELSE IF PortAt(st.nodes, kind, port).n_links > 0
                      THEN [st EXCEPT !.res = "EBUSY"]
                 ELSE BindArray(
                         [nodes |-> SetExternal(st.nodes, kind, port, Len(st.slots)),
                          slots |-> Append(st.slots,
                                       GraphPort(st.nodes[port[1]].desc,
                                                 Hndl(st.nodes[port[1]], i),
                                                 PortAt(st.nodes, kind, port).p)),
                          res |-> "OK"],
                         Tail(entries), def_node, kind, i)
         IN Entry(Head(entries), find_port(st.nodes, def_node, Head(entries), kind))

\* BindDerived taking the handle of instance 0 for every instance
BindDerived_FirstInstance(st, k, kind, i) ==
    LET desc == Desc[st.nodes[k].desc]
        ps == IF kind = "in" THEN desc.input ELSE desc.output
    IN [st EXCEPT !.slots = @ \o [j \in 1..Len(ps) |->
                                     GraphPort(st.nodes[k].desc, Hndl(st.nodes[k], 0), ps[j])]]

\* setup_graph, inputs == NULL / outputs == NULL: all audio ports of the
\* first / last node, for instance i
BindDerived(st, k, kind, i) ==
    LET desc == Desc[st.nodes[k].desc]
        ps == IF kind = "in" THEN desc.input ELSE desc.output
    IN [st EXCEPT !.slots = @ \o [j \in 1..Len(ps) |->
                                     GraphPort(st.nodes[k].desc, Hndl(st.nodes[k], i), ps[j])]]

BindOne(st, json, k, kind, i) ==
    IF json.present THEN BindArray(st, json.v, k, kind, i) ELSE BindDerived(st, k, kind, i)

\* one pass of that loop: the inputs, then the outputs of instance i.
\* st = [nodes, input, output, res]
BindInstance(st, i, inputs, outputs) ==
    LET Outputs(a, b) ==
            [nodes |-> b.nodes, input |-> a.slots, output |-> b.slots, res |-> b.res]
        Inputs(a) ==
            IF a.res # "OK"
            THEN [nodes |-> a.nodes, input |-> a.slots, output |-> st.output, res |-> a.res]
            ELSE Outputs(a, BindOne([nodes |-> a.nodes, slots |-> st.output, res |-> "OK"],
                                    outputs, Len(st.nodes), "out", i))
    IN Inputs(BindOne([nodes |-> st.nodes, slots |-> st.input, res |-> "OK"],
                      inputs, 1, "in", i))

\* setup_graph, "collect all input and output ports for all the handles".
\* the loop ends at the first error
RECURSIVE BindInstances(_, _, _, _, _)
BindInstances(st, i, n_hndl, inputs, outputs) ==
    IF i >= n_hndl \/ st.res # "OK" THEN st
    ELSE BindInstances(BindInstance(st, i, inputs, outputs), i + 1, n_hndl, inputs, outputs)

\* find_next_node returning the last node that is ready
find_next_node_Last(nodes) ==
    LET ready(k) == nodes[k].n_deps = 0 /\ ~nodes[k].visited
    IN IF \E k \in 1..Len(nodes) : ready(k)
       THEN CHOOSE k \in 1..Len(nodes) :
               ready(k) /\ \A j \in (k + 1)..Len(nodes) : ~ready(j)
       ELSE 0

\* find_next_node: the first node with n_deps == 0 that is not visited, 0 for none
find_next_node(nodes) ==
    LET ready(k) == nodes[k].n_deps = 0 /\ ~nodes[k].visited
    IN IF \E k \in 1..Len(nodes) : ready(k)
       THEN CHOOSE k \in 1..Len(nodes) : ready(k) /\ \A j \in 1..(k - 1) : ~ready(j)
       ELSE 0

\* setup_output_port, the n_deps-- of the node at the input end of each link
RECURSIVE ConsumeDeps(_, _, _)
ConsumeDeps(nodes, links, ids) ==
    IF ids = <<>> THEN nodes
    ELSE ConsumeDeps([nodes EXCEPT ![links[Head(ids)].input[1]].n_deps = @ - 1],
                     links, Tail(ids))

\* setup_output_port with the buffer of the first instance for all
setup_output_port_OneBuffer(nodes, links, k, j) ==
    LET port == nodes[k].output_port[j]
        n_hndl == nodes[k].n_hndl
        data == IF port.link_list = <<>> THEN port.audio_data
                ELSE [i \in 1..n_hndl |-> << "buffer", k, j - 1, 0 >>]
    IN ConsumeDeps([nodes EXCEPT ![k].output_port[j].audio_data = data],
                   links, port.link_list)

\* setup_output_port for output port j (1-based) of node k: a port with
\* links gets one buffer per instance, << "buffer", node, port, instance >>
setup_output_port(nodes, links, k, j) ==
    LET port == nodes[k].output_port[j]
        n_hndl == nodes[k].n_hndl
        data == IF port.link_list = <<>> THEN port.audio_data
                ELSE [i \in 1..n_hndl |->
                         IF i <= Len(port.audio_data) /\ port.audio_data[i] # NULL
                         THEN port.audio_data[i] ELSE << "buffer", k, j - 1, i - 1 >>]
    IN ConsumeDeps([nodes EXCEPT ![k].output_port[j].audio_data = data],
                   links, port.link_list)

RECURSIVE SetupOutputPorts(_, _, _, _)
SetupOutputPorts(nodes, links, k, j) ==
    IF j > Len(nodes[k].output_port) THEN nodes
    ELSE SetupOutputPorts(setup_output_port(nodes, links, k, j), links, k, j + 1)

\* setup_input_port with the buffer of the first instance of the peer for
\* every instance
setup_input_port_FirstInstance(nodes, links, k, j) ==
    LET Peer(l) == nodes[links[l].output[1]].output_port[links[l].output[2] + 1]
        PeerData(l) ==
            IF Peer(l).audio_data # <<>> THEN Peer(l).audio_data[1] ELSE NULL
        Connects(port, n) ==
            [c \in 1..(Len(port.link_list) * n) |->
                Ev("connect_port", Hndl(nodes[k], (c - 1) % n), port.p,
                   PeerData(port.link_list[((c - 1) \div n) + 1]), 0)]
    IN Connects(nodes[k].input_port[j], nodes[k].n_hndl)

\* setup_input_port for input port j (1-based) of node k: every instance
\* is connected to the buffer of the same instance of the peer of each link
setup_input_port(nodes, links, k, j) ==
    LET Peer(l) == nodes[links[l].output[1]].output_port[links[l].output[2] + 1]
        PeerData(l, i) ==
            IF i <= Len(Peer(l).audio_data) THEN Peer(l).audio_data[i] ELSE NULL
        Connects(port, n) ==
            [c \in 1..(Len(port.link_list) * n) |->
                Ev("connect_port", Hndl(nodes[k], (c - 1) % n), port.p,
                   PeerData(port.link_list[((c - 1) \div n) + 1], ((c - 1) % n) + 1), 0)]
    IN Connects(nodes[k].input_port[j], nodes[k].n_hndl)

RECURSIVE SetupInputPorts(_, _, _, _)
SetupInputPorts(nodes, links, k, j) ==
    IF j > Len(nodes[k].input_port) THEN <<>>
    ELSE setup_input_port(nodes, links, k, j) \o SetupInputPorts(nodes, links, k, j + 1)

\* the connect_port calls of setup_output_port for output port j of node
\* k, whose buffers nodes holds: every instance, for each link of the port
OutputPortCalls(nodes, k, j) ==
    LET Connects(port, n) ==
            [c \in 1..(Len(port.link_list) * n) |->
                Ev("connect_port", Hndl(nodes[k], (c - 1) % n), port.p,
                   port.audio_data[((c - 1) % n) + 1], 0)]
    IN Connects(nodes[k].output_port[j], nodes[k].n_hndl)

RECURSIVE SetupOutputCalls(_, _, _)
SetupOutputCalls(nodes, k, j) ==
    IF j > Len(nodes[k].output_port) THEN <<>>
    ELSE OutputPortCalls(nodes, k, j) \o SetupOutputCalls(nodes, k, j + 1)

\* setup_graph, "order all nodes based on dependencies".
\* st = [nodes, hndl, control_port, events]
RECURSIVE Order(_, _, _)
Order(st, links, n_hndl) ==
    LET Visited(k, node, after) ==
            Order([nodes |-> after,
                   hndl |-> st.hndl \o [i \in 1..n_hndl |->
                               [desc |-> node.desc, hndl |-> Hndl(node, i - 1)]],
                   control_port |-> st.control_port \o
                               [i \in 1..Len(node.control_port) |-> << k, i - 1 >>],
                   events |-> st.events \o SetupInputPorts(st.nodes, links, k, 1)
                                        \o SetupOutputCalls(after, k, 1)],
                  links, n_hndl)
        Visit(k, node) ==
            Visited(k, node,
                    SetupOutputPorts([st.nodes EXCEPT ![k].visited = TRUE], links, k, 1))
        Found(k) == IF k = 0 THEN st ELSE Visit(k, st.nodes[k])
    IN Found(find_next_node(st.nodes))

\* the error label leaving the nodes their handles
ErrorPath_KeepHandles(nodes) == nodes

\* setup_graph, the error label: cleanup of every handle the nodes hold
ErrorPath(nodes) ==
    [k \in 1..Len(nodes) |-> [nodes[k] EXCEPT !.n_hndl = 0, !.hndl = <<>>]]

\* setup_graph: [nodes, graph, capture, playback, hstate, res, events]
setup_graph(nodes, links, g, cap, play, inputs, outputs, fail_at, cb) ==
    LET Error(ns, gr, c, p, hs, r, calls) ==
            [nodes |-> ErrorPath(ns), graph |-> gr, capture |-> c, playback |-> p,
             hstate |-> hs, res |-> r, events |-> calls \o ErrorCalls(ns, 1)]
        Ordered(inst, g1, cap1, play1, ord) ==
            [events |-> InstantiateCalls(nodes, inst.nodes[1].n_hndl, fail_at, cb, 1)
                        \o ord.events,
             nodes |-> ord.nodes,
             graph |-> [g1 EXCEPT !.n_hndl = Len(ord.hndl), !.hndl = ord.hndl,
                                  !.n_control = Len(ord.control_port),
                                  !.control_port = ord.control_port],
             capture |-> cap1, playback |-> play1,
             hstate |-> HandlesOf(inst.nodes, "active"), res |-> "OK"]
        Bound(n_hndl, inst, g1, cap1, play1, bound) ==
            IF bound.res # "OK"
            THEN Error(bound.nodes, g1, cap1, play1, HandlesOf(inst.nodes, "cleaned"),
                       bound.res, InstantiateCalls(nodes, n_hndl, fail_at, cb, 1))
            ELSE Ordered(inst, g1, cap1, play1,
                         Order([nodes |-> bound.nodes, hndl |-> <<>>,
                                control_port |-> <<>>, events |-> <<>>], links, n_hndl))
        Collected(n_hndl, inst, cap1, play1, bound) ==
            Bound(n_hndl, inst,
                  [g EXCEPT !.n_input = Len(bound.input), !.input = bound.input,
                            !.n_output = Len(bound.output), !.output = bound.output],
                  cap1, play1, bound)
        Instantiated(n_hndl, cap1, play1, inst) ==
            IF ~inst.ok
            THEN Error(inst.nodes, g, cap1, play1, HandlesOf(inst.nodes, "cleaned"),
                       "ENOMEM", InstantiateCalls(nodes, n_hndl, fail_at, cb, 1))
            ELSE Collected(n_hndl, inst, cap1, play1,
                           BindInstances([nodes |-> inst.nodes, input |-> <<>>,
                                          output |-> <<>>, res |-> "OK"],
                                         0, n_hndl, inputs, outputs))
        Dimensioned(cap1, play1, dim) ==
            IF dim.res # "OK"
            THEN Error(nodes, g, cap1, play1, <<>>, dim.res, <<>>)
            ELSE Instantiated(dim.n_hndl, cap1, play1,
                              Instantiate(nodes, dim.n_hndl, fail_at))
        Defaulted(n_input, n_output, cap1, play1) ==
            Dimensioned(cap1, play1, Dimension(n_input, n_output, cap1, play1))
        Counted(n_input, n_output) ==
            IF n_input = 0 \/ n_output = 0
            THEN Error(nodes, g, cap, play, <<>>, "EINVAL", <<>>)
            ELSE Defaulted(n_input, n_output,
                           IF cap = 0 THEN n_input ELSE cap,
                           IF play = 0 THEN n_output ELSE play)
    IN Counted(IF inputs.present THEN count_array(inputs)
               ELSE Desc[nodes[1].desc].n_input,
               IF outputs.present THEN count_array(outputs)
               ELSE Desc[nodes[Len(nodes)].desc].n_output)

\* parse_audio_info of both streams, then setup_graph as load_graph calls it
\* after the last links[] entry
SetupGraph(cfg) ==
    /\ phase \in {"nodes", "links"}
    /\ Len(node_list) > 0
    /\ LET Result(r) ==
               /\ node_list' = r.nodes
               /\ graph' = r.graph
               /\ capture_channels' = r.capture
               /\ playback_channels' = r.playback
               /\ hstate' = r.hstate
               /\ res' = r.res
               /\ events' = r.events
               /\ phase' = IF r.res = "OK" THEN "planned" ELSE "failed"
       IN Result(setup_graph(node_list, link_list, graph,
                             parse_audio_info(cfg.capture), parse_audio_info(cfg.playback),
                             cfg.inputs, cfg.outputs, cfg.fail_at, fc_callbacks))
    /\ call' = [op |-> "setup_graph", cfg |-> cfg]
    /\ UNCHANGED << link_list, fc_callbacks, out_datas, plugin_list, race, wq >>

\* ---------------------------------------------------------- teardown
\* link_free of every link of the list, from the first on. The unsigned
\* n_deps of a node that was planned is 0 and wraps: -1 is UINT_MAX
RECURSIVE LinkFree(_, _, _)
LinkFree(nodes, links, l) ==
    IF l > Len(links) THEN nodes
    ELSE LET Freed(in, out) ==
                 LET n1 == [nodes EXCEPT
                               ![in[1]].input_port[in[2] + 1].link_list = Tail(@),
                               ![in[1]].input_port[in[2] + 1].n_links = @ - 1]
                     n2 == [n1 EXCEPT ![in[1]].n_deps = IF @ = 0 THEN -1 ELSE @ - 1]
                 IN [n2 EXCEPT
                        ![out[1]].output_port[out[2] + 1].link_list = Tail(@),
                        ![out[1]].output_port[out[2] + 1].n_links = @ - 1]
         IN LinkFree(Freed(links[l].input, links[l].output), links, l + 1)

\* the state of a handle after a call on it, as the plugin sees it: no
\* call is allowed after cleanup
Invoked(state, op) ==
    IF state \in { "cleaned", "misused" } THEN "misused"
    ELSE CASE op = "cleanup" -> "cleaned"
           [] op = "deactivate" -> "inactive"
           [] OTHER -> "active"

\* node_free, the loop over the handles of the node: deactivate where the
\* descriptor has one, then cleanup. st = [hstate, events]
FreeHandles(st, node, cb) ==
    LET Mine == {Hndl(node, i) : i \in 0..(node.n_hndl - 1)} \ {NULL}
        Last(state) ==
            Invoked(IF cb.deactivate THEN Invoked(state, "deactivate") ELSE state, "cleanup")
        Handle(len, c) ==
            Ev(IF cb.deactivate /\ c % len = 1 THEN "deactivate" ELSE "cleanup",
               Hndl(node, (c - 1) \div len), 0, NULL, 0)
        Each(len) == [c \in 1..(node.n_hndl * len) |-> Handle(len, c)]
    IN [hstate |-> [h \in DOMAIN st.hstate |->
                       IF h \in Mine THEN Last(st.hstate[h]) ELSE st.hstate[h]],
        events |-> st.events \o Each(IF cb.deactivate THEN 2 ELSE 1)]

\* node_free: the handles, then descriptor_unref of the node's descriptor.
\* st = [hstate, events, plugins]
node_free(st, node, cb) ==
    LET Unref(h) ==
            IF h = 0 THEN st.plugins
            ELSE IF DescriptorAt(st.plugins[h].descriptor_list, node.desc) = 0
            THEN st.plugins
            ELSE descriptor_unref(st.plugins, h,
                                  DescriptorAt(st.plugins[h].descriptor_list, node.desc))
    IN [plugins |-> Unref(PluginAt(st.plugins, node.plugin[1], node.plugin[2]))]
       @@ FreeHandles([hstate |-> st.hstate, events |-> st.events], node, cb)

\* graph_free after the links were freed: node_free of the first n nodes of
\* the list
RECURSIVE FreeNodes(_, _, _, _)
FreeNodes(st, nodes, cb, n) ==
    IF n = 0 \/ nodes = <<>> THEN st
    ELSE FreeNodes(node_free(st, Head(nodes), cb), Tail(nodes), cb, n - 1)

\* graph_free: [hstate, events, plugins]
graph_free(nodes, links, hs, plugins, cb) ==
    FreeNodes([hstate |-> hs, events |-> <<>>, plugins |-> plugins],
              LinkFree(nodes, links, 1), cb, Len(nodes))

\* impl_destroy, after load_graph failed or when the module is destroyed:
\* the streams are gone, graph_free frees the links and the nodes
GraphFree ==
    /\ phase \in { "planned", "failed" }
    /\ LET Freed(r) ==
               /\ hstate' = r.hstate
               /\ events' = r.events
               /\ plugin_list' = r.plugins
       IN Freed(graph_free(node_list, link_list, hstate, plugin_list, fc_callbacks))
    /\ node_list' = <<>>
    /\ link_list' = <<>>
    /\ graph' = EmptyGraph
    /\ phase' = "freed"
    /\ call' = [op |-> "graph_free"]
    /\ UNCHANGED << capture_channels, playback_channels, res, fc_callbacks, out_datas,
                    race, wq >>

\* ------------------------------------------------------------ inputs
\* the references the links[] entries are drawn from
NodeRefs == {Ref(FALSE, "", PortId(0))} \cup {Ref(TRUE, NodeName(k), PortId(0)) : k \in 1..MaxNodes}
LinkOutRefs == NodeRefs
LinkInRefs ==
    NodeRefs \cup {Ref(TRUE, NodeName(k), PortId(1)) : k \in 1..MaxNodes}
             \cup {Ref(FALSE, "", PortNamed("In 2"))}

\* audio.channels of the capture and playback properties
ChannelCounts == {0, 1, 2, MAX_HNDL, MAX_HNDL + 1}

P0 == Ref(FALSE, "", PortId(0))
\* inputs[] and outputs[] of the description
InputSpecs ==
    {Absent, Array(<<>>), Array(<< P0, P0 >>), Array(<< NullRef, P0 >>)}
OutputSpecs ==
    {Absent, Array(<< P0, P0 >>), Array(<< P0 >>), Array(<< NullRef >>)}

Cfg(c, p, i, o, f) == [capture |-> c, playback |-> p, inputs |-> i, outputs |-> o, fail_at |-> f]

\* the descriptions' inputs/outputs and the streams' channels: every pair of
\* channel counts without inputs[]/outputs[], every inputs[]/outputs[] with
\* channels left to default or given for two instances, and a failing
\* instantiate
Configs ==
    {Cfg(c, p, Absent, Absent, 0) : c \in ChannelCounts, p \in ChannelCounts}
    \cup {Cfg(c[1], c[2], i, o, 0) : c \in {<< 0, 0 >>, << 4, 2 >>},
                                     i \in InputSpecs, o \in OutputSpecs}
    \cup {Cfg(c, c, Absent, Absent, f) : c \in {0, 2}, f \in 1..MaxFail}

Next ==
    \/ \E label \in Labels : LoadNode(NodeSpec("builtin", "", label, <<>>))
    \/ \E o \in LinkOutRefs, i \in LinkInRefs : ParseLink(o, i)
    \/ \E cfg \in Configs : SetupGraph(cfg)
    \/ GraphFree

Spec == Init /\ [][Next]_vars

\* ------------------------------------------------------ running graph
\* load_graph on a whole description: every nodes[] entry, every links[]
\* entry up to the first that fails, then setup_graph.
\* st = [nodes, links, res]
RECURSIVE LoadLinks(_, _)
LoadLinks(st, json) ==
    IF json = <<>> \/ st.res # "OK" THEN st
    ELSE LET Link(r, out_port, in_port) ==
                 IF r # "OK" THEN [st EXCEPT !.res = r]
                 ELSE [nodes |-> LinkPorts(st.nodes, out_port, in_port, Len(st.links) + 1),
                       links |-> Append(st.links, [output |-> out_port, input |-> in_port]),
                       res |-> "OK"]
         IN LoadLinks(Link(parse_link_res(st.nodes, Head(json)[1], Head(json)[2]),
                           find_port(st.nodes, 1, Head(json)[1], "out"),
                           find_port(st.nodes, Len(st.nodes), Head(json)[2], "in")),
                      Tail(json))

RECURSIVE LoadNodes(_, _)
LoadNodes(st, labels) ==
    IF labels = <<>> \/ st.res # "OK" THEN st
    ELSE LoadNodes(load_node(st.nodes, st.plugins,
                             NodeSpec("builtin", "", Head(labels), <<>>)),
                   Tail(labels))

load_graph(d, cb) ==
    LET Linked(st, plugins) ==
            IF st.res # "OK"
            THEN [nodes |-> st.nodes, links |-> st.links, graph |-> EmptyGraph,
                  capture |-> d.cfg.capture, playback |-> d.cfg.playback,
                  hstate |-> <<>>, res |-> st.res, events |-> <<>>, plugins |-> plugins]
            ELSE [links |-> st.links, plugins |-> plugins] @@
                 setup_graph(st.nodes, st.links, EmptyGraph,
                             parse_audio_info(d.cfg.capture),
                             parse_audio_info(d.cfg.playback),
                             d.cfg.inputs, d.cfg.outputs, d.cfg.fail_at, cb)
        Noded(n) ==
            Linked(LoadLinks([nodes |-> n.nodes, links |-> <<>>, res |-> n.res], d.links),
                   n.plugins)
    IN Noded(LoadNodes([nodes |-> <<>>, plugins |-> <<>>, res |-> "OK"], d.nodes))

\* the descriptions the running graphs are loaded from
Description(nodes, links, cfg) == [nodes |-> nodes, links |-> links, cfg |-> cfg]

Descriptions ==
    { \* one copy node, one instance / two instances
      Description(<< "copy" >>, <<>>, Cfg(0, 0, Absent, Absent, 0)),
      Description(<< "copy" >>, <<>>, Cfg(2, 2, Absent, Absent, 0)),
      \* one mixer: two inputs, one output, two gains
      Description(<< "mixer" >>, <<>>, Cfg(0, 0, Absent, Absent, 0)),
      \* the same with a capture stream of three channels
      Description(<< "mixer" >>, <<>>, Cfg(3, 1, Absent, Absent, 0)),
      \* copy into mixer, "null" entries in inputs and outputs
      Description(<< "copy", "mixer" >>,
                  << << Ref(TRUE, "n1", PortNamed("Out")), Ref(TRUE, "n2", PortNamed("In 1")) >> >>,
                  Cfg(0, 0, Array(<< NullRef, Ref(TRUE, "n1", PortNamed("In")) >>),
                      Array(<< Ref(FALSE, "", PortNamed("Out")), NullRef >>), 0)) }

\* the descriptors' optional callbacks
Callbacks == [activate : BOOLEAN, deactivate : BOOLEAN]

RunInit ==
    \E d \in Descriptions, cb \in Callbacks :
        LET Loaded(r) ==
                /\ r.res = "OK"
                /\ node_list = r.nodes
                /\ link_list = r.links
                /\ graph = r.graph
                /\ capture_channels = r.capture
                /\ playback_channels = r.playback
                /\ hstate = r.hstate
                /\ plugin_list = r.plugins
        IN /\ Loaded(load_graph(d, cb))
           /\ phase = "planned"
           /\ res = "OK"
           /\ call = [op |-> "load_graph"]
           /\ fc_callbacks = cb
           /\ events = <<>>
           /\ out_datas = <<>>
           /\ race = NoRace
           /\ wq = NoWork

\* ------------------------------------------------------------ executor
SIZEOF_FLOAT == 4

\* SPA_MIN taking the larger
SPA_MIN_Larger(a, b) == IF a < b THEN b ELSE a

SPA_MIN(a, b) == IF a < b THEN a ELSE b

SPA_MAX(a, b) == IF a > b THEN a ELSE b

\* a pw_buffer a dequeue returned (one spa_data per stream channel), or none
NoBuffer == [present |-> FALSE, datas |-> <<>>]
Buffer(datas) == [present |-> TRUE, datas |-> datas]
\* a spa_data and its chunk
Data(maxsize, offset, size, stride) ==
    [maxsize |-> maxsize, offset |-> offset, size |-> size, stride |-> stride]

\* graph->input[i] / graph->output[i]; past the end of the allocated array
\* the read yields whatever the memory holds
GraphSlot(slots, i, wild) == IF i < Len(slots) THEN slots[i + 1] ELSE wild

\* capture_process, the loop over in->buffer->datas.
\* st = [events, outsize, stride]
RECURSIVE InputLoop(_, _, _, _, _)
InputLoop(st, datas, input, wild, i) ==
    IF i >= Len(datas) THEN st
    ELSE LET Slot(ds, port, offs) ==
                 LET Sized(size) ==
                         [events |-> IF port.desc # NoDesc
                                     THEN Append(st.events,
                                                 Ev("connect_port", port.hndl, port.port,
                                                    << "capture", i, offs >>, 0))
                                     ELSE st.events,
                          outsize |-> IF i = 0 THEN size ELSE SPA_MIN(st.outsize, size),
                          stride |-> SPA_MAX(st.stride, ds.stride)]
                 IN Sized(SPA_MIN(ds.size, ds.maxsize - offs))
         IN InputLoop(Slot(datas[i + 1], GraphSlot(input, i, wild),
                           SPA_MIN(datas[i + 1].offset, datas[i + 1].maxsize)),
                      datas, input, wild, i + 1)

\* OutputLoop connecting every slot, a "null" one too
RECURSIVE OutputLoop_ConnectNull(_, _, _, _, _, _)
OutputLoop_ConnectNull(st, datas, output, wild, stride, i) ==
    IF i >= Len(datas) THEN st
    ELSE LET Slot(dd, port, outsize) ==
                 [events |-> Append(st.events,
                                    Ev("connect_port", port.hndl, port.port,
                                       << "playback", i, 0 >>, 0)),
                  outsize |-> outsize,
                  datas |-> Append(st.datas, Data(dd.maxsize, 0, outsize, stride))]
         IN OutputLoop_ConnectNull(Slot(datas[i + 1], GraphSlot(output, i, wild),
                                        SPA_MIN(st.outsize, datas[i + 1].maxsize)),
                                   datas, output, wild, stride, i + 1)

\* capture_process, the loop over out->buffer->datas.
\* st = [events, outsize, datas]
RECURSIVE OutputLoop(_, _, _, _, _, _)
OutputLoop(st, datas, output, wild, stride, i) ==
    IF i >= Len(datas) THEN st
    ELSE LET Slot(dd, port, outsize) ==
                 [events |-> Append(st.events,
                                    IF port.desc # NoDesc
                                    THEN Ev("connect_port", port.hndl, port.port,
                                            << "playback", i, 0 >>, 0)
                                    ELSE Ev("memset", NULL, 0, << "playback", i, 0 >>,
                                            outsize)),
                  outsize |-> outsize,
                  datas |-> Append(st.datas, Data(dd.maxsize, 0, outsize, stride))]
         IN OutputLoop(Slot(datas[i + 1], GraphSlot(output, i, wild),
                            SPA_MIN(st.outsize, datas[i + 1].maxsize)),
                       datas, output, wild, stride, i + 1)

\* RunLoop from the last entry of graph->hndl to the first
RunLoop_Reversed(hndl, n_hndl, outsize) ==
    [i \in 1..n_hndl |-> Ev("run", hndl[n_hndl + 1 - i].hndl, 0, NULL,
                            outsize \div SIZEOF_FLOAT)]

\* capture_process, the loop over graph->hndl
RunLoop(hndl, n_hndl, outsize) ==
    [i \in 1..n_hndl |-> Ev("run", hndl[i].hndl, 0, NULL, outsize \div SIZEOF_FLOAT)]

\* Done giving the buffers back only when both were dequeued
Done_OnlyBoth(in, out) ==
    (IF in.present /\ out.present
     THEN << Ev("queue_buffer", NULL, 0, << "capture" >>, 0),
             Ev("queue_buffer", NULL, 0, << "playback" >>, 0) >>
     ELSE <<>>)
    \o << Ev("trigger_process", NULL, 0, << "playback" >>, 0) >>

\* capture_process, from the "done" label on
Done(in, out) ==
    (IF in.present THEN << Ev("queue_buffer", NULL, 0, << "capture" >>, 0) >> ELSE <<>>)
    \o (IF out.present THEN << Ev("queue_buffer", NULL, 0, << "playback" >>, 0) >> ELSE <<>>)
    \o << Ev("trigger_process", NULL, 0, << "playback" >>, 0) >>

\* capture_process for the buffers the two dequeues returned:
\* [events, datas] with the datas of the playback buffer afterwards
capture_process(g, in, out, wild) ==
    LET Outputs(sti, sto) ==
            [events |-> sto.events \o RunLoop(g.hndl, g.n_hndl, sto.outsize) \o Done(in, out),
             datas |-> sto.datas]
        Inputs(sti) ==
            Outputs(sti, OutputLoop([events |-> sti.events, outsize |-> sti.outsize,
                                     datas |-> <<>>],
                                    out.datas, g.output, wild, sti.stride, 0))
    IN IF ~in.present \/ ~out.present
       THEN [events |-> Done(in, out), datas |-> out.datas]
       ELSE Inputs(InputLoop([events |-> <<>>, outsize |-> 0, stride |-> 0],
                             in.datas, g.input, wild, 0))

\* the spa_datas of the capture buffers
InDatas ==
    { Data(16, 0, 16, 4), Data(16, 0, 8, 4), Data(16, 8, 16, 8), Data(8, 32, 8, 4),
      Data(16, 0, 6, 4) }
\* the capture buffers of a stream of n channels: every data the same, or
\* the first one full and the others not
InBuffers(n) ==
    { Buffer([i \in 1..n |-> d]) : d \in InDatas }
    \cup { Buffer([i \in 1..n |-> IF i = 1 THEN Data(16, 0, 16, 4) ELSE d]) : d \in InDatas }
\* the maxsizes of the spa_datas of the playback buffers
OutSizes == { 4, 16 }
\* the playback buffers of a stream of n channels, as dequeued
OutBuffers(n) ==
    { Buffer([i \in 1..n |-> Data(IF i = 1 THEN a ELSE b, 0, 0, 0)]) :
          a \in OutSizes, b \in OutSizes }
\* what a read past the end of graph->input / graph->output can yield
WildSlots == { GraphPort(NoDesc, NULL, 0), GraphPort("wild", << 0, 0 >>, 0) }

\* one period: the process callback of the capture stream
CaptureProcess(in, out, wild) ==
    /\ phase = "planned"
    /\ LET Period(r) ==
               /\ events' = r.events
               /\ out_datas' = r.datas
       IN Period(capture_process(graph, in, out, wild))
    /\ call' = [op |-> "capture_process", in |-> in, out |-> out]
    /\ UNCHANGED << node_list, link_list, graph, capture_channels, playback_channels,
                    hstate, phase, res, fc_callbacks, plugin_list, race, wq >>

\* ------------------------------------------------------- control plane
\* parse_params: the pairs of one struct, in order. st = [nodes, changed]
RECURSIVE parse_params(_, _)
parse_params(st, pairs) ==
    IF pairs = <<>> THEN st
    ELSE LET Next1(r) == parse_params([nodes |-> r.nodes, changed |-> st.changed + r.changed],
                                      Tail(pairs))
         IN Next1(set_control_value(st.nodes, 1, Head(pairs).name, Head(pairs).val))

\* get_props_param: the (name, value) pairs of graph.control_port, in order
get_props_param(g, nodes) ==
    [i \in 1..g.n_control |->
        LET port == g.control_port[i]
            node == nodes[port[1]]
            pname == FcPorts(node.desc)[node.control_port[port[2] + 1].p + 1].name
        IN << IF node.name # "" THEN Ref(TRUE, node.name, PortNamed(pname))
              ELSE Ref(FALSE, "", PortNamed(pname)),
              node.control_port[port[2] + 1].control_data >>]

\* param_props_changed: the properties of the object, in order; a property
\* is [key, pairs]. Returns [nodes, events]
RECURSIVE ParseProps(_, _)
ParseProps(st, props) ==
    IF props = <<>> THEN st
    ELSE ParseProps(IF Head(props).key = "params" THEN parse_params(st, Head(props).pairs)
                    ELSE st,
                    Tail(props))

param_props_changed(g, nodes, props) ==
    LET Parsed(st) ==
            [nodes |-> st.nodes,
             events |-> IF st.changed > 0
                        THEN << Ev("update_params", NULL, 0,
                                   << "capture", get_props_param(g, st.nodes) >>, 1) >>
                        ELSE <<>>]
    IN Parsed(ParseProps([nodes |-> nodes, changed |-> 0], props))

\* graph_reset: deactivate then activate on every entry of graph.hndl, each
\* where the descriptor provides it. Returns [nodes, hstate, events]
RECURSIVE ResetLoop(_, _, _, _)
ResetLoop(st, hndl, cb, i) ==
    IF i > Len(hndl) THEN st
    ELSE LET Activated(h, d) ==
                 IF cb.activate
                 THEN [hstate |-> [d.hstate EXCEPT ![h] = "active"],
                       events |-> Append(d.events, Ev("activate", h, 0, NULL, 0))]
                 ELSE d
             Deactivated(h) ==
                 Activated(h, IF cb.deactivate
                              THEN [hstate |-> [st.hstate EXCEPT ![h] = "inactive"],
                                    events |-> Append(st.events,
                                                      Ev("deactivate", h, 0, NULL, 0))]
                              ELSE st)
         IN ResetLoop(Deactivated(hndl[i].hndl), hndl, cb, i + 1)

\* graph_reset taking the controls back to the descriptor's defaults
graph_reset_DefaultControls(g, nodes, hs, cb) ==
    [nodes |-> [k \in 1..Len(nodes) |->
                   [nodes[k] EXCEPT !.control_port =
                       [i \in 1..Len(@) |->
                           [@[i] EXCEPT !.control_data =
                               Desc[nodes[k].desc].default_control[i]]]]]]
    @@ ResetLoop([hstate |-> hs, events |-> <<>>], g.hndl, cb, 1)

\* graph_reset deactivating every entry before it activates the first
graph_reset_DeactivateAllFirst(g, nodes, hs, cb) ==
    [nodes |-> nodes,
     hstate |-> ResetLoop([hstate |-> hs, events |-> <<>>], g.hndl, cb, 1).hstate,
     events |-> (IF cb.deactivate
                 THEN [i \in 1..Len(g.hndl) |-> Ev("deactivate", g.hndl[i].hndl, 0, NULL, 0)]
                 ELSE <<>>)
                \o (IF cb.activate
                    THEN [i \in 1..Len(g.hndl) |-> Ev("activate", g.hndl[i].hndl, 0, NULL, 0)]
                    ELSE <<>>)]

\* graph_reset clearing the visited mark of the nodes
graph_reset_ClearsVisited(g, nodes, hs, cb) ==
    [nodes |-> [k \in 1..Len(nodes) |-> [nodes[k] EXCEPT !.visited = FALSE]]]
    @@ ResetLoop([hstate |-> hs, events |-> <<>>], g.hndl, cb, 1)

graph_reset(g, nodes, hs, cb) ==
    [nodes |-> nodes] @@ ResetLoop([hstate |-> hs, events |-> <<>>], g.hndl, cb, 1)

\* the stream states state_changed is called with
StreamStates == { "error", "unconnected", "connecting", "paused", "streaming" }

\* state_changed of either stream
StateChanged(state) ==
    /\ phase = "planned"
    /\ IF state = "paused"
       THEN LET Reset(r) ==
                    /\ node_list' = r.nodes
                    /\ hstate' = r.hstate
                    /\ events' = << Ev("flush", NULL, 0, << "playback" >>, 0),
                                    Ev("flush", NULL, 0, << "capture" >>, 0) >> \o r.events
            IN Reset(graph_reset(graph, node_list, hstate, fc_callbacks))
       ELSE /\ events' = IF state = "unconnected"
                         THEN << Ev("schedule_destroy", NULL, 0, NULL, 0) >>
                         ELSE <<>>
            /\ UNCHANGED << node_list, hstate >>
    /\ call' = [op |-> "state_changed", state |-> state]
    /\ UNCHANGED << link_list, graph, capture_channels, playback_channels, phase, res,
                    fc_callbacks, out_datas, plugin_list, race, wq >>

\* the param of a param_changed event: none (NULL), a format, a Props
\* object with its properties, or a latency that parses or not
NoParam == [type |-> "none", props |-> <<>>, direction |-> ""]
FormatParam == [type |-> "format", props |-> <<>>, direction |-> ""]
PropsParam(props) == [type |-> "props", props |-> props, direction |-> ""]
LatencyParam(direction) == [type |-> "latency", props |-> <<>>, direction |-> direction]
Prop(key, pairs) == [key |-> key, pairs |-> pairs]

\* param_latency_changed: direction "" is a param spa_latency_parse refuses
param_latency_changed(param) ==
    IF param.direction = "" THEN <<>>
    ELSE << Ev("update_params", NULL, 0,
               << IF param.direction = "input" THEN "capture" ELSE "playback",
                  << param >> >>, 1) >>

\* param_changed of either stream
ParamChanged(id, param) ==
    /\ phase = "planned"
    /\ CASE id = "Format" /\ param = NoParam ->
              LET Reset(r) ==
                      /\ node_list' = r.nodes
                      /\ hstate' = r.hstate
                      /\ events' = r.events
              IN Reset(graph_reset(graph, node_list, hstate, fc_callbacks))
         [] id = "Props" /\ param # NoParam ->
              LET Changed(r) ==
                      /\ node_list' = r.nodes
                      /\ events' = r.events
                      /\ UNCHANGED hstate
              IN Changed(param_props_changed(graph, node_list, param.props))
         [] id = "Latency" ->
              /\ events' = param_latency_changed(param)
              /\ UNCHANGED << node_list, hstate >>
         [] OTHER ->
              /\ events' = <<>>
              /\ UNCHANGED << node_list, hstate >>
    /\ call' = [op |-> "param_changed", id |-> id, param |-> param]
    /\ UNCHANGED << link_list, graph, capture_channels, playback_channels, phase, res,
                    fc_callbacks, out_datas, plugin_list, race, wq >>

\* the (name, value) pairs of the Props updates: names that resolve from
\* the first node, with a node part, by index, and names that do not resolve
Pairs ==
    { Pair(Ref(FALSE, "", PortNamed("Gain 1")), PodValue("float", 2)),
      Pair(Ref(FALSE, "", PortNamed("Gain 1")), PodValue("float", NaN)),
      Pair(Ref(FALSE, "", PortNamed("Gain 1")), PodValue("int", 1)),
      Pair(Ref(FALSE, "", PortNamed("Gain 2")), PodValue("bool", 1)),
      Pair(Ref(FALSE, "", PortId(1)), PodValue("none", 0)),
      Pair(Ref(TRUE, "n2", PortNamed("Gain 1")), PodValue("double", 0)),
      Pair(Ref(TRUE, "n9", PortNamed("Gain 1")), PodValue("float", 2)),
      Pair(Ref(FALSE, "", PortNamed("bogus")), PodValue("float", 2)),
      Pair(Ref(FALSE, "", [id |-> 7, name |-> "7"]), PodValue("float", 2)) }

\* the Props objects: one params property of one pair, or of two pairs the
\* first of which sets "Gain 1", or a property of another key
PropsParams ==
    { PropsParam(<< Prop("params", << a >>) >>) : a \in Pairs }
    \cup { PropsParam(<< Prop("params", << a, b >>) >>) :
               a \in { c \in Pairs : c.name = Ref(FALSE, "", PortNamed("Gain 1")) },
               b \in Pairs }
    \cup { PropsParam(<< Prop("volume", << a >>) >>) :
               a \in { c \in Pairs : c.val = PodValue("float", 2) } }

\* the events param_changed is called with
ParamEvents ==
    { << "Format", NoParam >>, << "Format", FormatParam >>, << "Props", NoParam >> }
    \cup { << "Props", p >> : p \in PropsParams }
    \cup { << "Latency", LatencyParam(d) >> : d \in { "", "input", "output" } }

NextRun ==
    \/ \E in \in InBuffers(capture_channels) \cup { NoBuffer },
          out \in OutBuffers(playback_channels) \cup { NoBuffer } :
          \E wild \in IF capture_channels > graph.n_input \/ playback_channels > graph.n_output
                       THEN WildSlots ELSE { GraphPort(NoDesc, NULL, 0) } :
              CaptureProcess(in, out, wild)
    \/ \E state \in StreamStates : StateChanged(state)
    \/ \E e \in ParamEvents : ParamChanged(e[1], e[2])

SpecRun == RunInit /\ [][NextRun]_vars

\* ----------------------------------------------------- node loading
\* the entries of nodes[]: the builtin labels without and with a control
\* block (a port of the node itself, a port with a node part, a port the
\* node does not have, a value that is no number), a ladspa plugin, and
\* the entries load_node refuses
Gain1 == Ref(FALSE, "", PortNamed("Gain 1"))
NodeSpecs ==
    { NodeSpec("builtin", "", "copy", <<>>),
      NodeSpec("builtin", "", "mixer", <<>>),
      NodeSpec("builtin", "", "mixer", << Pair(Gain1, PodValue("float", 2)) >>),
      NodeSpec("builtin", "", "mixer", << Pair(Gain1, PodValue("none", 0)) >>),
      NodeSpec("builtin", "", "mixer",
               << Pair(Ref(TRUE, "n1", PortNamed("Gain 1")), PodValue("float", 3)) >>),
      NodeSpec("builtin", "", "mixer",
               << Pair(Ref(TRUE, "n2", PortNamed("Gain 2")), PodValue("float", 3)) >>),
      NodeSpec("builtin", "", "copy", << Pair(Gain1, PodValue("float", 2)) >>),
      NodeSpec("ladspa", "p1", "copy", <<>>),
      NodeSpec("ladspa", "p1", "mixer", <<>>),
      NodeSpec("builtin", "", "ctl", <<>>),
      NodeSpec("builtin", "", "reverb", <<>>),
      NodeSpec("lv2", "p1", "copy", <<>>),
      NodeSpec("vst", "p1", "copy", <<>>) }

\* the descriptions whose nodes[] entries are those, planned with the
\* streams' channels left to default, with or without a failing instantiate
NextLoad ==
    \/ \E ns \in NodeSpecs : LoadNode(ns)
    \/ \E o \in LinkOutRefs, i \in LinkInRefs : ParseLink(o, i)
    \/ \E f \in 0..1 : SetupGraph(Cfg(0, 0, Absent, Absent, f))
    \/ \E a \in Pairs : ParamChanged("Props", PropsParam(<< Prop("params", << a >>) >>))
    \/ GraphFree

SpecLoad == Init /\ [][NextLoad]_vars

\* ------------------------------------------- the two loops at once
\* the data loop runs the handles of a period while the main loop handles
\* a Props update; race = [pc, stores, update, reads]:
\*   pc      the place in graph.hndl of the handle that runs, 0 between periods
\*   stores  the writes to control_data set_control_value has still to make
\*   update  the update they belong to, << [port, a, b] >>, or none
\*   reads   what the handles of the period have read from control_data
\*   running the handle at pc is inside its run
\*   reset   the place of graph_reset, 0 outside of it: 2i - 1 before the
\*           deactivate of entry i of graph.hndl, 2i before its activate
MaxReads == 2

\* the stores of "port->control_data = value ? *value : default"
ControlStores_DefaultFirst(def, new) == << def, new >>

ControlStores(def, new) == << new >>

\* capture_process reaches the loop that runs the handles
PeriodStart ==
    /\ phase = "planned"
    /\ race.pc = 0
    /\ graph.n_hndl > 0
    /\ race' = [race EXCEPT !.pc = 1, !.reads = <<>>]
    /\ UNCHANGED << node_list, link_list, graph, capture_channels, playback_channels,
                    hstate, phase, res, call, fc_callbacks, events, out_datas,
                    plugin_list, wq >>

\* the run of the handle reads control port j of its node through the
\* pointer connect_port gave it
ReadControl(j) ==
    /\ race.pc \in 1..graph.n_hndl
    /\ Len(race.reads) < MaxReads
    /\ LET Read(k) ==
               /\ j \in 1..Len(node_list[k].control_port)
               /\ race' = [race EXCEPT !.reads =
                              Append(@, [port |-> << k, j - 1 >>,
                                         v |-> node_list[k].control_port[j].control_data,
                                         update |-> race.update])]
       IN Read(graph.hndl[race.pc].hndl[1])
    /\ UNCHANGED << node_list, link_list, graph, capture_channels, playback_channels,
                    hstate, phase, res, call, fc_callbacks, events, out_datas,
                    plugin_list, wq >>

\* the run of the handle returns
RunDone ==
    /\ race.pc \in 1..graph.n_hndl
    /\ race' = [race EXCEPT !.pc = IF @ = graph.n_hndl THEN 0 ELSE @ + 1]
    /\ UNCHANGED << node_list, link_list, graph, capture_channels, playback_channels,
                    hstate, phase, res, call, fc_callbacks, events, out_datas,
                    plugin_list, wq >>

\* set_control_value up to the store: the port is found and the value made
ControlBegin(c) ==
    /\ phase = "planned"
    /\ race.update = <<>>
    /\ LET Found(port) ==
               /\ port # NULL
               /\ race' = [race EXCEPT
                      !.update = << [port |-> port,
                                     a |-> PortAt(node_list, "control", port).control_data,
                                     b |-> PortAt(set_control_value(node_list, 1, c.name,
                                                                    c.val).nodes,
                                                  "control", port).control_data] >>,
                      !.stores = ControlStores(
                                     Desc[node_list[port[1]].desc].default_control[
                                         PortAt(node_list, "control", port).idx + 1],
                                     PortAt(set_control_value(node_list, 1, c.name,
                                                              c.val).nodes,
                                            "control", port).control_data)]
       IN Found(find_port(node_list, 1, c.name, "control"))
    /\ UNCHANGED << node_list, link_list, graph, capture_channels, playback_channels,
                    hstate, phase, res, call, fc_callbacks, events, out_datas,
                    plugin_list, wq >>

\* set_control_value, the store to port->control_data
ControlStore ==
    /\ race.stores # <<>>
    /\ node_list' = [node_list EXCEPT
                        ![race.update[1].port[1]].control_port[
                            race.update[1].port[2] + 1].control_data = Head(race.stores)]
    /\ race' = [race EXCEPT !.stores = Tail(@),
                            !.update = IF Tail(race.stores) = <<>> THEN <<>> ELSE @]
    /\ UNCHANGED << link_list, graph, capture_channels, playback_channels,
                    hstate, phase, res, call, fc_callbacks, events, out_datas,
                    plugin_list, wq >>

\* the pairs of the updates that run beside a period
RacePairs ==
    { Pair(Gain1, PodValue("float", 2)),
      Pair(Gain1, PodValue("double", 0)),
      Pair(Ref(FALSE, "", PortNamed("Gain 2")), PodValue("bool", 1)),
      Pair(Ref(TRUE, "n2", PortNamed("Gain 1")), PodValue("float", NaN)) }

NextRace ==
    \/ PeriodStart
    \/ \E j \in 1..2 : ReadControl(j)
    \/ RunDone
    \/ \E c \in RacePairs : ControlBegin(c)
    \/ ControlStore

SpecRace == RunInit /\ [][NextRace]_vars

\* --------------------------------------- a reset beside a period
\* capture_process calls run of the handle at pc
RunBegin ==
    /\ race.pc \in 1..graph.n_hndl
    /\ ~race.running
    /\ race' = [race EXCEPT !.running = TRUE]
    /\ events' = << Ev("run", graph.hndl[race.pc].hndl, 0, NULL, 0) >>
    /\ UNCHANGED << node_list, link_list, graph, capture_channels, playback_channels,
                    hstate, phase, res, call, fc_callbacks, out_datas, plugin_list, wq >>

\* the run returns and the loop goes to the next entry of graph.hndl
RunEnd ==
    /\ race.running
    /\ race' = [race EXCEPT !.running = FALSE,
                            !.pc = IF @ = graph.n_hndl THEN 0 ELSE @ + 1]
    /\ events' = <<>>
    /\ UNCHANGED << node_list, link_list, graph, capture_channels, playback_channels,
                    hstate, phase, res, call, fc_callbacks, out_datas, plugin_list, wq >>

\* state_changed to paused, or param_changed of Format without a param,
\* enters graph_reset
ResetBegin ==
    /\ phase = "planned"
    /\ race.reset = 0
    /\ graph.n_hndl > 0
    /\ race' = [race EXCEPT !.reset = 1]
    /\ events' = <<>>
    /\ UNCHANGED << node_list, link_list, graph, capture_channels, playback_channels,
                    hstate, phase, res, call, fc_callbacks, out_datas, plugin_list, wq >>

\* graph_reset, "if (d->deactivate) d->deactivate(hndl->hndl)"
ResetDeactivate ==
    /\ race.reset > 0
    /\ race.reset % 2 = 1
    /\ LET Entry(h) ==
               IF fc_callbacks.deactivate
               THEN /\ hstate' = [hstate EXCEPT ![h] = "inactive"]
                    /\ events' = << Ev("deactivate", h, 0, NULL, 0) >>
               ELSE /\ events' = <<>>
                    /\ UNCHANGED hstate
       IN Entry(graph.hndl[(race.reset + 1) \div 2].hndl)
    /\ race' = [race EXCEPT !.reset = @ + 1]
    /\ UNCHANGED << node_list, link_list, graph, capture_channels, playback_channels,
                    phase, res, call, fc_callbacks, out_datas, plugin_list, wq >>

\* graph_reset, "if (d->activate) d->activate(hndl->hndl)" and the next i
ResetActivate ==
    /\ race.reset > 0
    /\ race.reset % 2 = 0
    /\ LET Entry(h) ==
               IF fc_callbacks.activate
               THEN /\ hstate' = [hstate EXCEPT ![h] = "active"]
                    /\ events' = << Ev("activate", h, 0, NULL, 0) >>
               ELSE /\ events' = <<>>
                    /\ UNCHANGED hstate
       IN Entry(graph.hndl[race.reset \div 2].hndl)
    /\ race' = [race EXCEPT !.reset = IF @ = 2 * graph.n_hndl THEN 0 ELSE @ + 1]
    /\ UNCHANGED << node_list, link_list, graph, capture_channels, playback_channels,
                    phase, res, call, fc_callbacks, out_datas, plugin_list, wq >>

NextReset ==
    \/ PeriodStart
    \/ RunBegin
    \/ RunEnd
    \/ ResetBegin
    \/ ResetDeactivate
    \/ ResetActivate

SpecReset == RunInit /\ [][NextReset]_vars

\* ------------------------------------------------- named nodes
\* a nodes[] entry with its name key; "" is an entry without the key
Named(name, ns) == [name |-> name] @@ ns

\* mixers and a copy with a name, with the same name, and without a name
NamedSpecs ==
    { Named(name, NodeSpec("builtin", "", label, <<>>)) :
          name \in { "", "a", "b" }, label \in { "mixer", "copy" } }

\* a Props update of one pair whose name is the one get_props_param
\* publishes for entry i of graph.control_port
UpdatePublished(i, v) ==
    /\ phase = "planned"
    /\ i \in 1..graph.n_control
    /\ ParamChanged("Props",
                    PropsParam(<< Prop("params",
                                       << Pair(get_props_param(graph, node_list)[i][1],
                                               PodValue("float", v)) >>) >>))

NextNames ==
    \/ \E ns \in NamedSpecs : LoadNode(ns)
    \/ SetupGraph(Cfg(0, 0, Absent, Absent, 0))
    \/ \E i \in 1..4, v \in { 5, 6 } : UpdatePublished(i, v)

SpecNames == Init /\ [][NextNames]_vars

\* ------------------------------------------------- large buffers
\* the floats of silence_data, of discard_data and of every buffer
\* setup_output_port allocates
MAX_SAMPLES == 8192

\* the spa_datas of capture buffers that carry up to one float more than
\* MAX_SAMPLES, and the maxsizes of the playback buffers
LargeInDatas ==
    { Data(16, 0, 16, 4),
      Data(MAX_SAMPLES * SIZEOF_FLOAT, 0, MAX_SAMPLES * SIZEOF_FLOAT, 4),
      Data((MAX_SAMPLES + 1) * SIZEOF_FLOAT, 0, (MAX_SAMPLES + 1) * SIZEOF_FLOAT, 4) }
LargeOutSizes == { 16, MAX_SAMPLES * SIZEOF_FLOAT, (MAX_SAMPLES + 1) * SIZEOF_FLOAT }

\* the periods of streams whose buffers are that large
NextPeriod ==
    \E d \in LargeInDatas, size \in LargeOutSizes :
        \E wild \in IF capture_channels > graph.n_input \/ playback_channels > graph.n_output
                     THEN WildSlots ELSE { GraphPort(NoDesc, NULL, 0) } :
            CaptureProcess(Buffer([i \in 1..capture_channels |-> d]),
                           Buffer([i \in 1..playback_channels |-> Data(size, 0, 0, 0)]),
                           wild)

SpecPeriod == RunInit /\ [][NextPeriod]_vars

\* ------------------------------------------------------------ claims
Planned == phase = "planned"
SetupCalled == call.op = "setup_graph"

\* the counts setup_graph was called with: the declared or derived numbers
\* of graph inputs and outputs, the stream channels after their defaults
NInput == IF call.cfg.inputs.present THEN Len(call.cfg.inputs.v)
          ELSE Desc[node_list[1].desc].n_input
NOutput == IF call.cfg.outputs.present THEN Len(call.cfg.outputs.v)
           ELSE Desc[node_list[Len(node_list)].desc].n_output
CaptureGiven == IF call.cfg.capture = 0 THEN NInput ELSE call.cfg.capture
PlaybackGiven == IF call.cfg.playback = 0 THEN NOutput ELSE call.cfg.playback

\* the nodes a chain of one or more links leads to from node k
RECURSIVE Downstream(_, _)
Downstream(S, n) ==
    IF n = 0 THEN S
    ELSE Downstream(S \cup {link_list[l].input[1] :
                               l \in {x \in 1..Len(link_list) : link_list[x].output[1] \in S}},
                    n - 1)
After(k) ==
    Downstream({link_list[l].input[1] :
                   l \in {x \in 1..Len(link_list) : link_list[x].output[1] = k}},
               Len(node_list))
HasCycle == \E k \in 1..Len(node_list) : k \in After(k)

\* the places of a handle in graph.hndl
PlacesOf(h) == {a \in 1..Len(graph.hndl) : graph.hndl[a].hndl = h}

\* C1: after setup_graph succeeds, for every link u -> v and every instance
\* i, the entry of u.hndl[i] is in graph.hndl at a lower index than the
\* entry of v.hndl[i]
C1_TopologicalOrder ==
    Planned =>
        \A l \in 1..Len(link_list) : \A i \in 0..(node_list[1].n_hndl - 1) :
            \E a \in PlacesOf(Hndl(node_list[link_list[l].output[1]], i)) :
                \E b \in PlacesOf(Hndl(node_list[link_list[l].input[1]], i)) : a < b

\* C2: after setup_graph succeeds, graph.hndl holds the entry of every
\* instance of every node exactly once, graph.n_hndl is nodes x instances
\* and every node is visited
C2_EveryInstanceOnce ==
    Planned =>
        /\ graph.n_hndl = Len(node_list) * node_list[1].n_hndl
        /\ \A k \in 1..Len(node_list) :
              /\ node_list[k].visited
              /\ \A i \in 0..(node_list[k].n_hndl - 1) :
                    Cardinality({a \in PlacesOf(Hndl(node_list[k], i)) :
                                    graph.hndl[a].desc = node_list[k].desc}) = 1

\* C3: setup_graph does not return success for a graph whose links form a
\* cycle (a link from a node to itself included)
C3_CycleRejected ==
    (SetupCalled /\ HasCycle) => res # "OK"

\* C4: every audio input port has at most one incoming link, whatever
\* parse_link calls were made
C4_OneLinkPerInput ==
    \A k \in 1..Len(node_list) : \A j \in 1..Len(node_list[k].input_port) :
        /\ node_list[k].input_port[j].n_links <= 1
        /\ Len(node_list[k].input_port[j].link_list) <= 1
        /\ Cardinality({l \in 1..Len(link_list) : link_list[l].input = << k, j - 1 >>}) <= 1

\* an output port with two links, and a parse_link that was refused for a
\* second link to an input port
C4_Witness ==
    /\ call.op = "parse_link" /\ phase = "failed" /\ res = "ENOTSUP"
    /\ \E k \in 1..Len(node_list) : \E j \in 1..Len(node_list[k].output_port) :
          node_list[k].output_port[j].n_links = 2

\* both ends of a links[] entry resolve and the input port has a link
SecondLink(o, i) ==
    /\ Len(node_list) > 0
    /\ find_port(node_list, 1, o, "out") # NULL
    /\ find_port(node_list, Len(node_list), i, "in") # NULL
    /\ PortAt(node_list, "in", find_port(node_list, Len(node_list), i, "in")).n_links > 0

\* C5: parse_link for an input port that already has a link fails with
\* BUSY, and makes no link
C5_SecondLinkBusy ==
    [][\A o \in LinkOutRefs, i \in LinkInRefs :
          (ParseLink(o, i) /\ SecondLink(o, i)) =>
              (res' = "EBUSY" /\ link_list' = link_list /\ node_list' = node_list)]_vars

RatioMismatch ==
    /\ SetupCalled /\ NInput > 0 /\ NOutput > 0
    /\ CaptureGiven \div NInput # PlaybackGiven \div NOutput

\* C6: setup_graph fails with INVALID when capture channels / n_input is
\* not playback channels / n_output (zero channel counts taken as n_input,
\* n_output), and no handle was instantiated
C6_RatioMismatchInvalid ==
    RatioMismatch =>
        /\ res = "EINVAL" /\ phase = "failed"
        /\ capture_channels = CaptureGiven /\ playback_channels = PlaybackGiven
        /\ hstate = <<>>
        /\ \A k \in 1..Len(node_list) : node_list[k].n_hndl = 0 /\ node_list[k].hndl = <<>>

\* a mismatch against a channel count that was defaulted from zero
C6_Witness ==
    RatioMismatch /\ call.cfg.capture = 0 /\ capture_channels = NInput /\ res = "EINVAL"

TooManyInstances ==
    /\ SetupCalled /\ NInput > 0 /\ NOutput > 0
    /\ CaptureGiven \div NInput = PlaybackGiven \div NOutput
    /\ CaptureGiven \div NInput > MAX_HNDL

Instances ==
    IF CaptureGiven \div NInput = 0 THEN 1 ELSE CaptureGiven \div NInput

\* C8: after setup_graph succeeds every node owns exactly n_hndl non-null
\* handles, n_hndl the same for all nodes, the graph's instance count, >= 1
C8_UniformHandles ==
    Planned =>
        /\ Instances >= 1
        /\ \A k \in 1..Len(node_list) :
              /\ node_list[k].n_hndl = Instances
              /\ Len(node_list[k].hndl) = Instances
              /\ \A i \in 0..(Instances - 1) :
                    /\ Hndl(node_list[k], i) # NULL
                    /\ Hndl(node_list[k], i) \in DOMAIN hstate
                    /\ hstate[Hndl(node_list[k], i)] = "active"
              /\ \A m \in 1..Len(node_list), i \in 0..(Instances - 1) :
                    m # k => Hndl(node_list[m], i) # Hndl(node_list[k], i)

\* two nodes planned with two instances each
C8_Witness ==
    Planned /\ Len(node_list) >= 2 /\ node_list[1].n_hndl = 2 /\ node_list[2].n_hndl = 2

\* slot s (from 0) of graph.input / graph.output is a null slot or holds a
\* handle of instance s div n
SlotOfInstance(slots, s, n) ==
    \/ slots[s + 1].desc = NoDesc
    \/ /\ slots[s + 1].hndl # NULL
       /\ slots[s + 1].hndl[2] = s \div n
       /\ slots[s + 1].hndl = Hndl(node_list[slots[s + 1].hndl[1]], s \div n)

\* C9: after setup_graph succeeds graph.n_input is n_input x n_hndl,
\* graph.n_output is n_output x n_hndl, and slot k is a null slot or bound
\* to a handle of instance k div n_input (k div n_output)
C9_ExternalSlots ==
    Planned =>
        /\ graph.n_input = NInput * Instances
        /\ graph.n_output = NOutput * Instances
        /\ Len(graph.input) = graph.n_input
        /\ Len(graph.output) = graph.n_output
        /\ \A s \in 0..(graph.n_input - 1) : SlotOfInstance(graph.input, s, NInput)
        /\ \A s \in 0..(graph.n_output - 1) : SlotOfInstance(graph.output, s, NOutput)

\* two instances, with a null slot and a bound slot of the second instance
C9_Witness ==
    /\ Planned /\ Instances = 2 /\ call.cfg.inputs.present
    /\ \E s \in 1..Len(graph.input) : graph.input[s].desc = NoDesc
    /\ \E s \in 1..Len(graph.input) :
          graph.input[s].desc # NoDesc /\ graph.input[s].hndl[2] = 1
    /\ \E s \in 1..Len(graph.output) :
          graph.output[s].desc # NoDesc /\ graph.output[s].hndl[2] = 1

\* the ports the entries of inputs[] (kind "in") or outputs[] (kind "out")
\* resolve to: the listed ones, or the audio ports of the first / last node
EntryPorts(json, k, kind) ==
    IF json.present
    THEN [e \in 1..Len(json.v) |->
             IF json.v[e] = NullRef THEN NULL ELSE find_port(node_list, k, json.v[e], kind)]
    ELSE [e \in 1..Len(PortArray(node_list[k], kind)) |-> << k, e - 1 >>]

\* no listed entry names a port that does not exist
EntriesResolve(json, k, kind) ==
    \A e \in 1..Len(EntryPorts(json, k, kind)) :
        EntryPorts(json, k, kind)[e] = NULL => json.v[e] = NullRef

\* an entry's port is the end of a link, or the port of an earlier entry
EntryBusy(json, k, kind) ==
    LET ports == EntryPorts(json, k, kind)
    IN \E e \in 1..Len(ports) :
          /\ ports[e] # NULL
          /\ \/ PortAt(node_list, kind, ports[e]).n_links > 0
             \/ \E d \in 1..(e - 1) : ports[d] = ports[e]

\* C10: planning fails with BUSY when the port of a graph-input entry,
\* listed in inputs[] or derived from the first node, is already bound to
\* another external slot or is the input end of a link; the same for
\* graph-output entries and ports bound already or with outgoing links
C10_BusyEntries ==
    ( /\ SetupCalled /\ res \notin {"EINVAL", "ENOMEM"}
      /\ EntriesResolve(call.cfg.inputs, 1, "in")
      /\ EntriesResolve(call.cfg.outputs, Len(node_list), "out")
      /\ \/ EntryBusy(call.cfg.inputs, 1, "in")
         \/ EntryBusy(call.cfg.outputs, Len(node_list), "out") )
    => res = "EBUSY"

\* ---------------------------------------------------- executor claims
PeriodDone == call.op = "capture_process"
Skipped == ~call.in.present \/ ~call.out.present
Processed == PeriodDone /\ ~Skipped

\* the positions in events of the calls of one kind on one stream data
DataCalls(op, stream, i) ==
    { a \in 1..Len(events) :
          /\ events[a].op = op
          /\ events[a].data[1] = stream
          /\ events[a].data[2] = i }
Calls(op) == { a \in 1..Len(events) : events[a].op = op }

\* the data slots of the last period that have a graph slot
InSlots == 0..(SPA_MIN(Len(call.in.datas), graph.n_input) - 1)
OutSlots == 0..(SPA_MIN(Len(call.out.datas), graph.n_output) - 1)

\* C11: in a processed period a "null" input slot gets no connect_port, a
\* "null" output slot gets no connect_port and its region is zeroed, and
\* every other slot is connected once to its handle and port
C11_NullSlots ==
    Processed =>
        /\ \A i \in InSlots :
              IF graph.input[i + 1].desc = NoDesc
              THEN DataCalls("connect_port", "capture", i) = {}
              ELSE /\ Cardinality(DataCalls("connect_port", "capture", i)) = 1
                   /\ \A a \in DataCalls("connect_port", "capture", i) :
                         /\ events[a].hndl = graph.input[i + 1].hndl
                         /\ events[a].port = graph.input[i + 1].port
        /\ \A j \in OutSlots :
              IF graph.output[j + 1].desc = NoDesc
              THEN /\ DataCalls("connect_port", "playback", j) = {}
                   /\ Cardinality(DataCalls("memset", "playback", j)) = 1
                   /\ \A a \in DataCalls("memset", "playback", j) :
                         events[a].n = out_datas[j + 1].size
              ELSE /\ DataCalls("memset", "playback", j) = {}
                   /\ Cardinality(DataCalls("connect_port", "playback", j)) = 1
                   /\ \A a \in DataCalls("connect_port", "playback", j) :
                         /\ events[a].hndl = graph.output[j + 1].hndl
                         /\ events[a].port = graph.output[j + 1].port

C11_Witness ==
    /\ Processed
    /\ \E i \in InSlots : graph.input[i + 1].desc = NoDesc
    /\ \E i \in InSlots : graph.input[i + 1].desc # NoDesc
    /\ \E j \in OutSlots : graph.output[j + 1].desc = NoDesc
    /\ \E j \in OutSlots : graph.output[j + 1].desc # NoDesc
    /\ \E a \in Calls("memset") : events[a].n > 0

\* the number of times the last period queued a stream's buffer
Queued(stream) ==
    Cardinality({ a \in Calls("queue_buffer") : events[a].data = << stream >> })

\* C12: every period queues each buffer it dequeued exactly once (and none
\* it did not dequeue); a period that missed a buffer connects and runs nothing
C12_BuffersReturned ==
    PeriodDone =>
        /\ Queued("capture") = IF call.in.present THEN 1 ELSE 0
        /\ Queued("playback") = IF call.out.present THEN 1 ELSE 0
        /\ Skipped => Calls("connect_port") \cup Calls("run") \cup Calls("memset") = {}

C12_Witness ==
    /\ PeriodDone
    /\ call.in.present /\ ~call.out.present
    /\ Queued("capture") = 1

IsRun(e) == e.op = "run"

\* C13: a processed period runs the entries of graph.hndl once each, in
\* index order, with one frame count, after every connect_port and memset
\* of the period
C13_RunInOrder ==
    Processed =>
        /\ [a \in 1..Len(SelectSeq(events, IsRun)) |-> SelectSeq(events, IsRun)[a].hndl] =
               [i \in 1..graph.n_hndl |-> graph.hndl[i].hndl]
        /\ Cardinality({ events[a].n : a \in Calls("run") }) <= 1
        /\ \A a \in Calls("connect_port") \cup Calls("memset"), b \in Calls("run") : a < b
        /\ \A i \in InSlots :
              graph.input[i + 1].desc # NoDesc => DataCalls("connect_port", "capture", i) # {}
        /\ \A j \in OutSlots :
              DataCalls("connect_port", "playback", j)
                  \cup DataCalls("memset", "playback", j) # {}

C13_Witness ==
    /\ Processed
    /\ graph.n_hndl > 1
    /\ Cardinality(Calls("run")) = graph.n_hndl
    /\ \E a \in Calls("run") : events[a].n > 0

\* the least element of a set of numbers
Least(S) == CHOOSE x \in S : \A y \in S : x <= y
Greatest(S) == CHOOSE x \in S : \A y \in S : x >= y

\* the bytes of an input data slot: its chunk size, cut to what the slot
\* holds after the chunk offset
SlotBytes(ds) ==
    LET offs == IF ds.offset < ds.maxsize THEN ds.offset ELSE ds.maxsize
    IN IF ds.size < ds.maxsize - offs THEN ds.size ELSE ds.maxsize - offs

\* the frame count of the last period by the rule of the specification
FramesDue ==
    Least({ SlotBytes(call.in.datas[i]) : i \in 1..Len(call.in.datas) }
          \cup { call.out.datas[j].maxsize : j \in 1..Len(call.out.datas) })
        \div SIZEOF_FLOAT

\* C14: the frame count of every run of a processed period is the least
\* input slot size (cut to the slot), limited by every output maxsize,
\* divided by sizeof(float)
C14_FrameCount ==
    Processed => \A a \in Calls("run") : events[a].n = FramesDue

C14_Witness ==
    /\ Processed
    /\ Calls("run") # {}
    /\ FramesDue = 2
    /\ \E i \in 1..Len(call.in.datas) :
          /\ SlotBytes(call.in.datas[i]) < call.in.datas[i].size
          /\ SlotBytes(call.in.datas[i]) \div SIZEOF_FLOAT = FramesDue
    /\ \E i \in 1..Len(call.in.datas) : SlotBytes(call.in.datas[i]) \div SIZEOF_FLOAT > FramesDue

\* C15: after a processed period every output data has chunk offset 0, the
\* largest input stride as its stride, and as its size the bytes of the
\* frames the handles were run for, the same in every output data
C15_OutputChunks ==
    Processed =>
        \A j \in 1..Len(out_datas) :
            /\ out_datas[j].offset = 0
            /\ out_datas[j].stride =
                   Greatest({ 0 } \cup { call.in.datas[i].stride : i \in 1..Len(call.in.datas) })
            /\ out_datas[j].size = out_datas[1].size
            /\ \A a \in Calls("run") : out_datas[j].size = events[a].n * SIZEOF_FLOAT

\* ----------------------------------------------- control plane claims
\* the last event was a Props update
PropsUpdated == call.op = "param_changed" /\ call.id = "Props" /\ call.param # NoParam
\* the last event was a state reset
WasReset ==
    \/ call.op = "state_changed" /\ call.state = "paused"
    \/ call.op = "param_changed" /\ call.id = "Format" /\ call.param = NoParam

\* a pair whose name is no input control port of the graph
Unresolved(nodes, a) == find_port(nodes, 1, a.name, "control") = NULL
Start(nodes) == [nodes |-> nodes, changed |-> 0]

\* C16: a pair whose name does not resolve changes no control_data, counts
\* no change, and the pairs before and after it are applied as without it
C16_UnknownNameIgnored ==
    \A a \in Pairs :
        Unresolved(node_list, a) =>
            /\ set_control_value(node_list, 1, a.name, a.val) =
                   [nodes |-> node_list, changed |-> 0]
            /\ \A b \in Pairs :
                  /\ parse_params(Start(node_list), << a, b >>) =
                         parse_params(Start(node_list), << b >>)
                  /\ parse_params(Start(node_list), << b, a >>) =
                         parse_params(Start(node_list), << b >>)

\* an update of an unresolved pair followed by one that changed its port
C16_Witness ==
    /\ PropsUpdated
    /\ \E a \in Pairs, b \in Pairs :
          /\ call.param.props = << Prop("params", << a, b >>) >>
          /\ Unresolved(node_list, a)
          /\ ~Unresolved(node_list, b)
    /\ Calls("update_params") # {}

\* the nodes after the first n pairs of an update
AfterPairs(nodes, pairs, n) == parse_params(Start(nodes), SubSeq(pairs, 1, n)).nodes
\* applying some pair of the update changed a control_data
SomePairChanged(nodes, pairs) ==
    \E n \in 1..Len(pairs) : AfterPairs(nodes, pairs, n) # AfterPairs(nodes, pairs, n - 1)
\* the pairs of the params properties of an object, in order
RECURSIVE ParamsPairs(_)
ParamsPairs(props) ==
    IF props = <<>> THEN <<>>
    ELSE (IF Head(props).key = "params" THEN Head(props).pairs ELSE <<>>)
         \o ParamsPairs(Tail(props))

\* C17: a Props update publishes the snapshot exactly when applying one of
\* its pairs changed a control_data
C17_PublishOnChange ==
    [][ (call'.op = "param_changed" /\ call'.id = "Props" /\ call'.param # NoParam) =>
            ((\E a \in 1..Len(events') : events'[a].op = "update_params")
                 <=> SomePairChanged(node_list, ParamsPairs(call'.param.props))) ]_vars

\* the snapshot after a Props update of the current state
SnapshotAfter(nodes, param) ==
    get_props_param(graph, param_props_changed(graph, nodes, param.props).nodes)

\* C18: from every control state, applying an update twice gives the
\* snapshot that applying it once gives
C18_UpdateIdempotent ==
    \A u \in PropsParams :
        get_props_param(graph,
                        param_props_changed(graph,
                            param_props_changed(graph, node_list, u.props).nodes,
                            u.props).nodes)
            = SnapshotAfter(node_list, u)

\* an update applied to the state it had produced: it published nothing and
\* a control is off its default
C18_Witness ==
    /\ PropsUpdated
    /\ call.param \in PropsParams
    /\ events = <<>>
    /\ \E i \in 1..graph.n_control :
          /\ get_props_param(graph, node_list)[i][2] #
                 Desc[node_list[graph.control_port[i][1]].desc].default_control[
                     graph.control_port[i][2] + 1]
          /\ \E k \in 1..Len(ParamsPairs(call.param.props)) :
                find_port(node_list, 1, ParamsPairs(call.param.props)[k].name, "control")
                    = graph.control_port[i]

\* C19: a state reset changes no control_data
C19_ResetKeepsControls ==
    [][ ( \/ call'.op = "state_changed" /\ call'.state = "paused"
          \/ call'.op = "param_changed" /\ call'.id = "Format" /\ call'.param = NoParam ) =>
            /\ get_props_param(graph', node_list') = get_props_param(graph, node_list)
            /\ \A k \in 1..Len(node_list) :
                  node_list'[k].control_port = node_list[k].control_port ]_vars

C19_Witness ==
    /\ WasReset
    /\ Calls("deactivate") # {}
    /\ \E i \in 1..graph.n_control :
          get_props_param(graph, node_list)[i][2] #
              Desc[node_list[graph.control_port[i][1]].desc].default_control[
                  graph.control_port[i][2] + 1]

IsResetCall(e) == e.op \in { "deactivate", "activate" }
\* deactivate then activate on the handle of entry i of graph.hndl
ResetPair(i) ==
    << Ev("deactivate", graph.hndl[i].hndl, 0, NULL, 0),
       Ev("activate", graph.hndl[i].hndl, 0, NULL, 0) >>
\* the calls the descriptor provides, of that pair
ProvidedPair(i) ==
    (IF fc_callbacks.deactivate THEN << ResetPair(i)[1] >> ELSE <<>>)
    \o (IF fc_callbacks.activate THEN << ResetPair(i)[2] >> ELSE <<>>)
RECURSIVE Flatten(_, _)
Flatten(F(_), n) == IF n = 0 THEN <<>> ELSE Flatten(F, n - 1) \o F(n)

\* C20: a reset calls deactivate then activate on every entry of
\* graph.hndl, in index order, and leaves every handle active
C20_ResetEveryHandle ==
    WasReset =>
        /\ SelectSeq(events, IsResetCall) = Flatten(ResetPair, graph.n_hndl)
        /\ \A i \in 1..graph.n_hndl : hstate[graph.hndl[i].hndl] = "active"

\* C20 as amended: a reset calls, on every entry of graph.hndl in index
\* order, deactivate and then activate, each where the descriptor provides
\* it; a handle whose descriptor provides activate is active afterwards
C20_ResetProvidedCallbacks ==
    WasReset =>
        /\ SelectSeq(events, IsResetCall) = Flatten(ProvidedPair, graph.n_hndl)
        /\ fc_callbacks.activate =>
               \A i \in 1..graph.n_hndl : hstate[graph.hndl[i].hndl] = "active"

C20_Witness ==
    /\ WasReset
    /\ graph.n_hndl > 1
    /\ fc_callbacks.activate /\ fc_callbacks.deactivate
    /\ Len(SelectSeq(events, IsResetCall)) = 2 * graph.n_hndl

\* ----------------------------------------- structure and order claims
\* the nodes without the control_data of their input control ports
Structure(nodes) ==
    [k \in 1..Len(nodes) |->
        [nodes[k] EXCEPT !.control_port =
            [i \in 1..Len(@) |-> [@[i] EXCEPT !.control_data = 0]]]]

\* C22: from the end of planning on, no parameter update, publication,
\* state reset or period changes the nodes (but for the control_data of
\* input control ports), the links, graph.input, graph.output, graph.hndl
\* or graph.control_port
C22_StructureReadOnly ==
    [][ phase = "planned" =>
            /\ Structure(node_list') = Structure(node_list)
            /\ link_list' = link_list
            /\ graph' = graph ]_vars

\* a Props update has changed a control_data
C22_Witness ==
    /\ PropsUpdated
    /\ Calls("update_params") # {}
    /\ \E k \in 1..Len(node_list) : \E i \in 1..Len(node_list[k].control_port) :
          node_list[k].control_port[i].control_data #
              Desc[node_list[k].desc].default_control[i]

\* the links that end in node k / lie on a port's list
LinksInto(k) == {l \in 1..Len(link_list) : link_list[l].input[1] = k}
LinksAt(l, end, k, j) ==
    IF end = "in" THEN link_list[l].input = << k, j >> ELSE link_list[l].output = << k, j >>
\* the link ids with port j (0-based) of node k as that end, in creation order
RECURSIVE LinkIds(_, _, _, _)
LinkIds(l, end, k, j) ==
    IF l > Len(link_list) THEN <<>>
    ELSE (IF LinksAt(l, end, k, j) THEN << l >> ELSE <<>>) \o LinkIds(l + 1, end, k, j)
BeforePlanning == call.op \in { "none", "load_node", "parse_link" }

\* C29: before planning, the n_deps of every node is the number of links
\* into its input ports, the n_links of every port is the length of its
\* link list, which holds the links of that port; a rejected links[] entry
\* changes no node and no link
C29_LinkCounters ==
    /\ [](BeforePlanning =>
            \A k \in 1..Len(node_list) :
                /\ node_list[k].n_deps = Cardinality(LinksInto(k))
                /\ \A j \in 1..Len(node_list[k].input_port) :
                      /\ node_list[k].input_port[j].n_links =
                             Len(node_list[k].input_port[j].link_list)
                      /\ node_list[k].input_port[j].link_list = LinkIds(1, "in", k, j - 1)
                /\ \A j \in 1..Len(node_list[k].output_port) :
                      /\ node_list[k].output_port[j].n_links =
                             Len(node_list[k].output_port[j].link_list)
                      /\ node_list[k].output_port[j].link_list = LinkIds(1, "out", k, j - 1))
    /\ [][ (call'.op = "parse_link" /\ res' # "OK") =>
               (node_list' = node_list /\ link_list' = link_list) ]_vars

\* a links[] entry was rejected on a graph with a node of two dependencies
C29_Witness ==
    /\ call.op = "parse_link"
    /\ res = "ENOTSUP"
    /\ \E k \in 1..Len(node_list) : node_list[k].n_deps = 2

\* the nodes of the entries of graph.hndl, one per group of n entries
WalkOf(n) ==
    [t \in 1..(Len(graph.hndl) \div n) |-> graph.hndl[(t - 1) * n + 1].hndl[1]]
\* node k is ready when every link into it comes from a node of S
ReadyAfter(k, S) == \A l \in LinksInto(k) : link_list[l].output[1] \in S
\* the walk that takes the first ready node of the node list at every step
RECURSIVE FirstReadyWalk(_)
FirstReadyWalk(walk) ==
    LET Seen == {walk[t] : t \in 1..Len(walk)}
        Cand == {k \in 1..Len(node_list) : k \notin Seen /\ ReadyAfter(k, Seen)}
    IN IF Cand = {} THEN walk
       ELSE FirstReadyWalk(Append(walk, CHOOSE k \in Cand : \A j \in Cand : k <= j))

\* C27: graph.hndl is the walk that takes, at every step, the first node
\* of the node list that is unvisited and has no dependency left; the
\* instances of a node are consecutive entries in instance order; without
\* links graph.hndl follows the node list
C27_FirstReadyFirst ==
    (Planned /\ SetupCalled) =>
        /\ Len(graph.hndl) = Len(FirstReadyWalk(<<>>)) * node_list[1].n_hndl
        /\ WalkOf(node_list[1].n_hndl) = FirstReadyWalk(<<>>)
        /\ \A a \in 1..Len(graph.hndl) :
              graph.hndl[a].hndl =
                  << FirstReadyWalk(<<>>)[((a - 1) \div node_list[1].n_hndl) + 1],
                     (a - 1) % node_list[1].n_hndl >>
        /\ link_list = <<>> => WalkOf(node_list[1].n_hndl) = [k \in 1..Len(node_list) |-> k]

\* two nodes were ready at the first step, with two instances each
C27_Witness ==
    /\ Planned /\ SetupCalled
    /\ Len(node_list) = 2
    /\ node_list[1].n_hndl = 2
    /\ \A k \in 1..2 : LinksInto(k) = {}
    /\ Len(graph.hndl) = 4

\* ----------------------------------------------------- plugin claims
\* the nodes of a list that use descriptor label of the plugin
NodesUsing(nodes, plugin, label) ==
    {k \in 1..Len(nodes) : nodes[k].plugin = << plugin.type, plugin.path >>
                           /\ nodes[k].desc = label}
\* the reference counts of the plugins are those of the nodes of the list
RefsMatch(nodes, plugins) ==
    /\ \A h \in 1..Len(plugins) :
          /\ plugins[h].ref = Len(plugins[h].descriptor_list)
          /\ plugins[h].ref > 0
          /\ \A d \in 1..Len(plugins[h].descriptor_list) :
                /\ plugins[h].descriptor_list[d].ref =
                       Cardinality(NodesUsing(nodes, plugins[h],
                                              plugins[h].descriptor_list[d].label))
                /\ plugins[h].descriptor_list[d].ref > 0
                /\ \A e \in 1..Len(plugins[h].descriptor_list) :
                      plugins[h].descriptor_list[e].label =
                          plugins[h].descriptor_list[d].label => e = d
          /\ \A j \in 1..Len(plugins) :
                (plugins[j].type = plugins[h].type /\ plugins[j].path = plugins[h].path)
                    => j = h
    /\ \A k \in 1..Len(nodes) :
          \E h \in 1..Len(plugins) :
              /\ << plugins[h].type, plugins[h].path >> = nodes[k].plugin
              /\ \E d \in 1..Len(plugins[h].descriptor_list) :
                    plugins[h].descriptor_list[d].label = nodes[k].desc
\* the plugins after node_free of the first n nodes
PluginsAfterFree(n) ==
    FreeNodes([hstate |-> hstate, events |-> <<>>, plugins |-> plugin_list],
              node_list, fc_callbacks, n).plugins

C24_FailedLoadRestores ==
    [][ (call'.op = "load_node" /\ res' \in { "ENOENT", "ENOTSUP" })
            => plugin_list' = plugin_list ]_vars

\* a label the plugin does not know, of a plugin no node had loaded
C24_Witness ==
    /\ call.op = "load_node"
    /\ res = "ENOENT"
    /\ call.node.type = "ladspa"
    /\ node_list # <<>>
    /\ PluginAt(plugin_list, "ladspa", "p1") = 0

\* ------------------------------------------------- reference claims
\* the nodes a reference may resolve in when def is the default node
TargetNodes(nodes, def, ref) ==
    IF ref.col THEN {k \in 1..Len(nodes) : nodes[k].name = ref.node}
    ELSE {def} \ {0}
\* the places of the ports of a kind of a node that a reference names
PortMatches(node, kind, ref) ==
    {i \in 0..(Len(PortArray(node, kind)) - 1) :
        \/ i = ref.port.id
        \/ FcPorts(node.desc)[PortArray(node, kind)[i + 1].p + 1].name = ref.port.name}
\* port is what the reference resolves to: a first matching port of a target
\* node, and NULL only when no target node has a matching port
ResolvesTo(nodes, def, ref, kind, port) ==
    IF port = NULL
    THEN \A k \in TargetNodes(nodes, def, ref) : PortMatches(nodes[k], kind, ref) = {}
    ELSE /\ port[1] \in TargetNodes(nodes, def, ref)
         /\ port[2] \in PortMatches(nodes[port[1]], kind, ref)
         /\ \A i \in PortMatches(nodes[port[1]], kind, ref) : port[2] <= i
\* the control port << k, j >> that a (name, value) pair sets, if any
SetBy(nodes, def, c, k, j) ==
    /\ c.val.type # "none"
    /\ ResolvesTo(nodes, def, c.name, "control", << k, j >>)
\* from before to after only the control port the pair names has changed,
\* and a float value has been stored there
OnlySet(before, after, def, c) ==
    /\ Len(after) = Len(before)
    /\ \A k \in 1..Len(before) :
          \A j \in 1..Len(before[k].control_port) :
              IF k \in TargetNodes(before, def, c.name)
                 /\ SetBy(before, def, c, k, j - 1)
              THEN c.val.type = "float"
                       => after[k].control_port[j].control_data = c.val.v
              ELSE after[k].control_port[j].control_data =
                       before[k].control_port[j].control_data
\* the node load_node has appended
Built == node_list'[Len(node_list')]
\* the node load_node had made before it read the control block
Fresh == [NewNode(Built.name, Built.desc) EXCEPT !.plugin = Built.plugin]

\* C28: a reference without a node part resolves in the first node for the
\* output of a link, in the last node for the input of a link, in the node
\* being made for its control block and in the first node for a Props
\* update; a reference with a node part resolves in the listed node of that
\* name only; a link whose reference does not resolve fails with ENOENT
\* and a (name, value) pair whose reference does not resolve sets nothing
C28_DefaultNodes ==
    [][ /\ \A o \in LinkOutRefs, i \in LinkInRefs :
              (ParseLink(o, i) /\ node_list # <<>>) =>
                  /\ res' = "ENOENT" <=>
                         \/ ResolvesTo(node_list, 1, o, "out", NULL)
                         \/ ResolvesTo(node_list, Len(node_list), i, "in", NULL)
                  /\ res' = "OK" =>
                         /\ ResolvesTo(node_list, 1, o, "out",
                                       link_list'[Len(link_list')].output)
                         /\ ResolvesTo(node_list, Len(node_list), i, "in",
                                       link_list'[Len(link_list')].input)
        /\ (call'.op = "load_node" /\ res' = "OK" /\ Len(call'.node.control) = 1) =>
              IF call'.node.control[1].name.col
              THEN /\ OnlySet(node_list, SubSeq(node_list', 1, Len(node_list)), 0,
                              call'.node.control[1])
                   /\ Built = Fresh
              ELSE /\ SubSeq(node_list', 1, Len(node_list)) = node_list
                   /\ OnlySet(<< Fresh >>, << Built >>, 1, call'.node.control[1])
        /\ \A a \in Pairs :
              ParamChanged("Props", PropsParam(<< Prop("params", << a >>) >>))
                  => OnlySet(node_list, node_list', 1, a) ]_vars

\* the control block of the second node has set a port of that node by a
\* name without node part, and a link without node parts goes from the
\* first node to the second
C28_Witness ==
    /\ Len(node_list) = 2
    /\ node_list[2].control_port # <<>>
    /\ node_list[2].control_port[1].control_data = 2
    /\ link_list # <<>>
    /\ link_list[1].output[1] = 1
    /\ link_list[1].input[1] = 2
    /\ call.op = "parse_link"
    /\ res = "OK"

\* ---------------------------------------------------- handle claims
\* the places of the calls of an operation on a handle
CallsOn(h, op) == {c \in 1..Len(events) : events[c].op = op /\ events[c].hndl = h}
\* no call on a handle follows its cleanup
CleanupIsLast ==
    \A c \in 1..Len(events) :
        events[c].op = "cleanup" =>
            \A e \in (c + 1)..Len(events) : events[e].hndl # events[c].hndl
\* the handles instantiate returned in the calls of setup_graph
Instantiated == {events[c].hndl : c \in {e \in 1..Len(events) : events[e].op = "instantiate"}}
                    \ {NULL}

\* C26: no handle is called after its cleanup. When setup_graph fails every
\* handle instantiate had returned gets one cleanup, as its last call, and
\* every node is left with n_hndl = 0; graph_free then calls none of them.
\* graph_free after a setup_graph that succeeded gives every handle one
\* cleanup, as its last call.
C26_CleanupOnce ==
    /\ \A h \in DOMAIN hstate : hstate[h] # "misused"
    /\ (call.op = "setup_graph" /\ res # "OK") =>
          /\ \A k \in 1..Len(node_list) : node_list[k].n_hndl = 0
          /\ Instantiated = DOMAIN hstate
          /\ \A h \in Instantiated :
                hstate[h] = "cleaned" /\ Cardinality(CallsOn(h, "cleanup")) = 1
          /\ CleanupIsLast
    /\ call.op = "graph_free" =>
          /\ CleanupIsLast
          /\ \A h \in DOMAIN hstate :
                /\ hstate[h] = "cleaned"
                /\ Cardinality(CallsOn(h, "cleanup")) = IF res = "OK" THEN 1 ELSE 0
          /\ res # "OK" => events = <<>>

\* the graph is freed after an instantiate of setup_graph has failed that
\* was not the first one
C26_Witness ==
    /\ call.op = "graph_free"
    /\ res = "ENOMEM"
    /\ DOMAIN hstate # {}

\* the place of the first activate, instantiate or cleanup after place a of
\* the calls, or one past the last call
NextMark(a) ==
    CHOOSE b \in (a + 1)..(Len(events) + 1) :
        /\ b <= Len(events) => events[b].op \in { "activate", "instantiate", "cleanup" }
        /\ \A c \in (a + 1)..(b - 1) :
              events[c].op \notin { "activate", "instantiate", "cleanup" }
\* between places a and b of the calls, connect_port of port p of handle h
\* to one of the regions
Connected(a, b, h, p, regions) ==
    \E c \in (a + 1)..(b - 1) :
        /\ events[c].op = "connect_port"
        /\ events[c].hndl = h
        /\ events[c].port = p
        /\ events[c].data \in regions
\* the ports of the handle instantiated at place a are connected before
\* place b
AllConnected(a, b, h, node) ==
    /\ \A j \in 1..Len(node.input_port) :
          Connected(a, b, h, node.input_port[j].p,
                    IF SupportsNullData(node.desc) THEN { NULL } ELSE { << "silence" >> })
    /\ \A j \in 1..Len(node.output_port) :
          Connected(a, b, h, node.output_port[j].p,
                    IF SupportsNullData(node.desc) THEN { NULL } ELSE { << "discard" >> })
    /\ \A j \in 1..Len(node.control_port) :
          Connected(a, b, h, node.control_port[j].p, { << "control", h[1], j - 1 >> })
    /\ \A j \in 1..Len(node.notify_port) :
          Connected(a, b, h, node.notify_port[j].p, { << "notify", h[1], j - 1 >> })
    /\ \A c \in (a + 1)..(b - 1) : events[c].op = "connect_port" /\ events[c].hndl = h

\* C30: in the calls of setup_graph, every instantiate that returned a
\* handle is followed, before the activate of the handle and before any
\* other instantiate, by connect_port calls on that handle only: every
\* audio input on silence_data and every audio output on discard_data, or
\* both on NULL when the descriptor has SUPPORTS_NULL_DATA and only then,
\* every control and notify port on its control_data. There is no run.
C30_ConnectedBeforeActivate ==
    call.op = "setup_graph" =>
        /\ \A a \in 1..Len(events) :
              (events[a].op = "instantiate" /\ events[a].hndl # NULL) =>
                  AllConnected(a, NextMark(a), events[a].hndl,
                               node_list[events[a].hndl[1]])
        /\ \A a \in 1..Len(events) :
              /\ events[a].op # "run"
              /\ events[a].op = "activate" =>
                    \E c \in 1..(a - 1) :
                        /\ events[c].op = "instantiate"
                        /\ events[c].hndl = events[a].hndl
                        /\ NextMark(c) = a

\* two instances of a node with SUPPORTS_NULL_DATA and of one without
C30_Witness ==
    /\ call.op = "setup_graph"
    /\ res = "OK"
    /\ Len(node_list) = 2
    /\ node_list[1].n_hndl = 2
    /\ SupportsNullData(node_list[1].desc)
    /\ ~SupportsNullData(node_list[2].desc)
    /\ CallsOn(<< 2, 1 >>, "activate") # {}

\* ---------------------------------------------------- region claims
\* the region the last connect_port of setup_graph left port p of handle h on
Bound(h, p) ==
    LET Last(C) == IF C = {} THEN << "unbound" >>
                   ELSE events[CHOOSE c \in C : \A d \in C : d <= c].data
    IN Last({c \in 1..Len(events) : /\ events[c].op = "connect_port"
                                    /\ events[c].hndl = h
                                    /\ events[c].port = p})
\* the slots of graph.input or graph.output that capture_process connects
\* to port p of handle h when the stream has n datas
SlotsOf(slots, n, h, p) ==
    {s \in 1..SPA_MIN(Len(slots), n) :
        slots[s].desc # NoDesc /\ slots[s].hndl = h /\ slots[s].port = p}
\* the region port p of handle h is on when the handles run in a period
PeriodBound(h, p) ==
    LET Slot(name, S, other) ==
            IF S = {} THEN other ELSE << name, CHOOSE s \in S : \A t \in S : t <= s >>
    IN Slot("capture", SlotsOf(graph.input, capture_channels, h, p),
            Slot("playback", SlotsOf(graph.output, playback_channels, h, p),
                 Bound(h, p)))
\* the audio ports of the instances: << node, instance, port >>
AudioPorts(kind) ==
    UNION {{<< k, i, j >> : i \in 0..(node_list[k].n_hndl - 1),
                            j \in 1..Len(PortArray(node_list[k], kind))} :
           k \in 1..Len(node_list)}
\* every audio input is on a region that has at most one writer: an output
\* of an instance, or the capture stream
SingleWriter(B(_, _)) ==
    LET At(kind, x) == B(<< x[1], x[2] >>, PortArray(node_list[x[1]], kind)[x[3]].p)
        OutRegions == {<< o, At("out", o) >> : o \in AudioPorts("out")}
        Writers(r) == {w \in OutRegions : w[2] = r}
        Read(r) ==
            /\ r # << "unbound" >>
            /\ r # NULL =>
                  /\ r[1] \in { "silence", "buffer", "capture" }
                  /\ Cardinality(Writers(r)) <= (IF r[1] = "buffer" THEN 1 ELSE 0)
    IN \A x \in AudioPorts("in") : Read(At("in", x))

\* C25: after a setup_graph that succeeded, and in the periods that follow
\* when capture_process has connected the slots of graph.input and
\* graph.output, every audio input of every instance is on silence_data, on
\* the buffer of an output port, on the data of a capture slot, or on NULL
\* with SUPPORTS_NULL_DATA; no output is on silence_data or on a capture
\* data, and the buffer is the region of at most one output of one instance
C25_SingleWriter ==
    (call.op = "setup_graph" /\ res = "OK") =>
        SingleWriter(Bound) /\ SingleWriter(PeriodBound)

\* two nodes of two instances each, the inputs of the second on the
\* buffers of the first
C25_Witness ==
    /\ call.op = "setup_graph"
    /\ res = "OK"
    /\ Len(node_list) = 2
    /\ node_list[2].n_hndl = 2
    /\ Bound(<< 2, 1 >>, node_list[2].input_port[1].p) = << "buffer", 1, 0, 1 >>
    /\ PeriodBound(<< 1, 1 >>, node_list[1].input_port[1].p) = << "capture", 2 >>

C32_SlotsInRange ==
    Processed =>
        /\ Len(call.in.datas) <= graph.n_input
        /\ Len(call.out.datas) <= graph.n_output

\* C33: no run of a processed period is for more than MAX_SAMPLES frames
C33_FramesWithinBuffers ==
    Processed => \A a \in Calls("run") : events[a].n <= MAX_SAMPLES

\* ------------------------------------------------- life of a handle
\* the places before c of the activate and deactivate calls on the handle
\* of call c
Toggles(c) ==
    {a \in 1..(c - 1) : /\ events[a].hndl = events[c].hndl
                        /\ events[a].op \in { "activate", "deactivate" }}
\* call c comes in turn: activate after deactivate, deactivate after
\* activate, cleanup after deactivate; the first of them in the life of a
\* handle, which setup_graph begins, is activate, or cleanup when the
\* handle was never activated
InTurn(c) ==
    IF Toggles(c) = {}
    THEN IF call.op = "setup_graph" THEN events[c].op \in { "activate", "cleanup" }
         ELSE events[c].op \in { "activate", "deactivate" }
    ELSE events[Greatest(Toggles(c))].op =
             (IF events[c].op = "activate" THEN "deactivate"
              ELSE IF events[c].op = "deactivate" THEN "activate"
              ELSE "deactivate")

\* C34: in the calls of setup_graph, of a reset and of graph_free, every
\* activate, deactivate and cleanup on a handle comes in turn
C34_ActivateDeactivateAlternate ==
    call.op \in { "setup_graph", "graph_free" } =>
        \A c \in 1..Len(events) :
            (events[c].hndl # NULL
                 /\ events[c].op \in { "activate", "deactivate", "cleanup" }) => InTurn(c)

\* the same for the planned graphs only: setup_graph succeeded
C34_AlternateWhenPlanned ==
    (call.op \in { "setup_graph", "graph_free" } /\ res = "OK") =>
        \A c \in 1..Len(events) :
            (events[c].hndl # NULL
                 /\ events[c].op \in { "activate", "deactivate", "cleanup" }) => InTurn(c)

\* ------------------------------------------------ reset and period
\* C35: a handle is never inside its run while it is between the
\* deactivate and the activate of a reset, and no call of a reset is made
\* on a handle that is inside its run
C35_NoRunDuringReset ==
    /\ [](race.running => hstate[graph.hndl[race.pc].hndl] # "inactive")
    /\ [][ (race'.reset # race.reset /\ events' # <<>> /\ race.running)
               => events'[1].hndl # graph.hndl[race.pc].hndl ]_vars

\* -------------------------------------------------- published names
\* the control_data of entry i of graph.control_port in a node list
ControlData(nodes, i) == PortAt(nodes, "control", graph.control_port[i]).control_data

\* C36: a Props update of one pair whose name is the name the snapshot
\* publishes for an entry of graph.control_port stores the value in the
\* port of that entry and changes no other port of graph.control_port
C36_PublishedNameRoundTrip ==
    [][ (call'.op = "param_changed" /\ call'.id = "Props" /\ phase = "planned") =>
            \A i \in 1..graph.n_control :
                call'.param.props[1].pairs[1].name = get_props_param(graph, node_list)[i][1]
                    => /\ ControlData(node_list', i) = call'.param.props[1].pairs[1].val.v
                       /\ \A j \in 1..graph.n_control :
                             graph.control_port[j] # graph.control_port[i]
                                 => ControlData(node_list', j) = ControlData(node_list, j)
      ]_vars

\* the same where every node has a name and no two nodes have the same
C36_RoundTripDistinctNames ==
    [][ (call'.op = "param_changed" /\ call'.id = "Props" /\ phase = "planned"
         /\ \A k \in 1..Len(node_list) :
               /\ node_list[k].name # ""
               /\ \A l \in 1..Len(node_list) : node_list[l].name = node_list[k].name => l = k) =>
            \A i \in 1..graph.n_control :
                call'.param.props[1].pairs[1].name = get_props_param(graph, node_list)[i][1]
                    => /\ ControlData(node_list', i) = call'.param.props[1].pairs[1].val.v
                       /\ \A j \in 1..graph.n_control :
                             graph.control_port[j] # graph.control_port[i]
                                 => ControlData(node_list', j) = ControlData(node_list, j)
      ]_vars

\* ------------------------------------------------------ n_deps
\* the links into node k that the walk has not consumed: those whose
\* output node setup_output_port has not been called for
Pending(k) == {l \in LinksInto(k) : ~node_list[link_list[l].output[1]].visited}
\* the nodes when graph_free has freed the first n links of the list
AfterLinkFree(n) == LinkFree(node_list, SubSeq(link_list, 1, n), 1)

\* the n_deps of every node is the number of its pending links
DepsArePending ==
    \A k \in 1..Len(node_list) : node_list[k].n_deps = Cardinality(Pending(k))

\* C37: through load_node, parse_link and setup_graph the n_deps of every
\* node is the number of its links the walk has not consumed, and no
\* link_free of graph_free takes the n_deps of a node below 0
C37_DepsNeverWrap ==
    /\ DepsArePending
    /\ phase \in { "planned", "failed" } =>
          \A n \in 1..Len(link_list) :
              \A k \in 1..Len(node_list) : AfterLinkFree(n)[k].n_deps >= 0

\* ------------------------------------------------ link buffers
\* the output ports of the instances that have links: << node, instance, port >>
LinkedOutputs ==
    {o \in AudioPorts("out") : node_list[o[1]].output_port[o[3]].link_list # <<>>}
\* the region setup_graph left output o on
OutputRegion(o) == Bound(<< o[1], o[2] >>, node_list[o[1]].output_port[o[3]].p)
\* the region setup_graph left the input end of link l on, for instance i
InputRegion(l, i) ==
    Bound(<< link_list[l].input[1], i >>, PortAt(node_list, "in", link_list[l].input).p)

EBUSY == 16
\* an asynchronous result has bit 30 set and bit 31 clear and carries its
\* sequence number in the 30 bits below
SPA_ASYNC_BIT == 1073741824
SPA_RESULT_IS_ASYNC(r) == r >= SPA_ASYNC_BIT
SPA_RESULT_ASYNC_SEQ(r) == r % SPA_ASYNC_BIT

\* the most items one queue is given
MaxAdds == 3
WorkObjs == { << "obj", 1 >>, << "obj", 2 >> }
\* the sequence numbers a completion is reported with, the first of them
\* the one items are added with
WorkSeqs == { 1, 2 }
AddResults == { 0, -EBUSY, SPA_ASYNC_BIT + 1 }

Waiting_Never(item) == FALSE
\* the item waits for pw_work_queue_complete
Waiting(item) == item.seq # SPA_ID_INVALID

Busy_Never(q, item) == FALSE
\* the item was given -EBUSY and is not the first of the work list
Busy(q, item) == item.res = -EBUSY /\ item.id # q.work_list[1].id

\* the loop of process_work_queue from the item at the head of items on;
\* q.calls gets every callback invoked, with the identifiers of the work
\* list as it was found
RECURSIVE process_items(_, _)
process_items(q, items) ==
    IF items = <<>> THEN q
    ELSE IF Waiting(Head(items)) \/ Busy(q, Head(items))
         THEN process_items(q, Tail(items))
         ELSE process_items(
                  [q EXCEPT !.work_list =
                                SelectSeq(@, LAMBDA it : it.id # Head(items).id),
                            !.n_queued = @ - 1,
                            !.free_list = @ + 1,
                            !.calls = IF Head(items).func
                                      THEN Append(@, [id |-> Head(items).id,
                                                      obj |-> Head(items).obj,
                                                      res |-> Head(items).res,
                                                      list |-> [k \in 1..Len(q.work_list) |->
                                                                  q.work_list[k].id]])
                                      ELSE @],
                  Tail(items))

process_work_queue(q) == process_items(q, q.work_list)

HaveWork_NotBusy(r) == ~SPA_RESULT_IS_ASYNC(r) /\ r # -EBUSY
\* have_work of pw_work_queue_add: the item does not wait for a completion
HaveWork(r) == ~SPA_RESULT_IS_ASYNC(r)

\* pw_work_queue_add; oom is malloc returning NULL with the free list
\* empty, which leaves the queue as it was
\* (with at most MaxAdds items the counter stays far from SPA_ID_INVALID)
pw_work_queue_add(q, obj, r, func, oom) ==
    IF q.free_list = 0 /\ oom THEN q
    ELSE [q EXCEPT !.free_list = IF @ > 0 THEN @ - 1 ELSE 0,
                   !.counter = @ + 1,
                   !.work_list =
                       Append(@, [obj |-> obj, id |-> q.counter + 1,
                                  seq |-> IF SPA_RESULT_IS_ASYNC(r)
                                          THEN SPA_RESULT_ASYNC_SEQ(r)
                                          ELSE SPA_ID_INVALID,
                                  func |-> func, res |-> r]),
                   !.n_queued = @ + 1,
                   !.wakeup = @ \/ HaveWork(r)]

\* the items pw_work_queue_cancel(obj, id) takes
CancelMatch(item, obj, id) ==
    /\ id = SPA_ID_INVALID \/ item.id = id
    /\ obj = NULL \/ item.obj = obj

pw_work_queue_cancel(q, obj, id) ==
    IF \A k \in 1..Len(q.work_list) : ~CancelMatch(q.work_list[k], obj, id)
    THEN q
    ELSE [q EXCEPT !.work_list =
                       [k \in 1..Len(@) |->
                           IF CancelMatch(@[k], obj, id)
                           THEN [@[k] EXCEPT !.seq = SPA_ID_INVALID, !.func = FALSE]
                           ELSE @[k]],
                   !.wakeup = TRUE]

\* the items pw_work_queue_complete(obj, seq, res) takes
CompleteMatch(item, obj, seq) == item.obj = obj /\ item.seq = seq

pw_work_queue_complete(q, obj, seq, r) ==
    IF \A k \in 1..Len(q.work_list) : ~CompleteMatch(q.work_list[k], obj, seq)
    THEN q
    ELSE [q EXCEPT !.work_list =
                       [k \in 1..Len(@) |->
                           IF CompleteMatch(@[k], obj, seq)
                           THEN [@[k] EXCEPT !.seq = SPA_ID_INVALID, !.res = r]
                           ELSE @[k]],
                   !.wakeup = TRUE]

\* everything but the queue
others == << node_list, link_list, graph, capture_channels, playback_channels,
             hstate, phase, res, call, fc_callbacks, events, out_datas,
             plugin_list, race >>

\* wq.added[id] is the item of that identifier as it was added, whether a
\* cancel took it and the result of the complete that took it
WorkAdd(obj, r, oom) ==
    /\ wq.counter < MaxAdds
    /\ wq' = [pw_work_queue_add(wq, obj, r, TRUE, oom) EXCEPT
                 !.added = IF wq.free_list = 0 /\ oom THEN @
                           ELSE Append(@, [obj |-> obj, res |-> r,
                                           cancelled |-> FALSE,
                                           completed |-> <<>>])]
    /\ UNCHANGED others

WorkCancel(obj, id) ==
    /\ wq' = [pw_work_queue_cancel(wq, obj, id) EXCEPT
                 !.added = [k \in 1..Len(@) |->
                               IF \E n \in 1..Len(wq.work_list) :
                                      /\ wq.work_list[n].id = k
                                      /\ CancelMatch(wq.work_list[n], obj, id)
                               THEN [@[k] EXCEPT !.cancelled = TRUE]
                               ELSE @[k]]]
    /\ UNCHANGED others

WorkComplete(obj, seq, r) ==
    /\ wq' = [pw_work_queue_complete(wq, obj, seq, r) EXCEPT
                 !.added = [k \in 1..Len(@) |->
                               IF \E n \in 1..Len(wq.work_list) :
                                      /\ wq.work_list[n].id = k
                                      /\ CompleteMatch(wq.work_list[n], obj, seq)
                               THEN [@[k] EXCEPT !.completed = << r >>]
                               ELSE @[k]]]
    /\ UNCHANGED others

\* the loop dispatches the wakeup event to process_work_queue
WorkProcess ==
    /\ wq.wakeup
    /\ wq' = [process_work_queue(wq) EXCEPT !.wakeup = FALSE]
    /\ UNCHANGED others

NextWork ==
    \/ \E obj \in WorkObjs, r \in AddResults, oom \in BOOLEAN : WorkAdd(obj, r, oom)
    \/ \E obj \in WorkObjs \cup { NULL }, id \in (1..MaxAdds) \cup { SPA_ID_INVALID } :
           WorkCancel(obj, id)
    \/ \E obj \in WorkObjs, seq \in WorkSeqs, r \in { 0, -EBUSY } :
           WorkComplete(obj, seq, r)
    \/ WorkProcess

SpecWork == Init /\ [][NextWork]_vars
\* every signalled wakeup is dispatched in the end
SpecWorkFair == SpecWork /\ WF_vars(WorkProcess)

\* -------------------------------------------------- C38, C39, C40
\* the item of identifier id is on the work list
OnList(id) == \E n \in 1..Len(wq.work_list) : wq.work_list[n].id = id

\* C38: the callback of an item added with -EBUSY is invoked only when the
\* item is the first of the work list, so with no item added before it
\* still on the list
C38_BusyRunsFirst ==
    \A c \in 1..Len(wq.calls) :
        wq.added[wq.calls[c].id].res = -EBUSY =>
            /\ wq.calls[c].list[1] = wq.calls[c].id
            /\ \A n \in 1..Len(wq.calls[c].list) :
                   wq.calls[c].list[n] >= wq.calls[c].id

\* the callback of an item added with -EBUSY behind another item ran
C38_Witness ==
    \E c \in 1..Len(wq.calls) :
        /\ wq.added[wq.calls[c].id].res = -EBUSY
        /\ wq.calls[c].id > 1
        /\ OnList(wq.calls[c].id - 1) \/ \E d \in 1..(c - 1) : wq.calls[d].id < wq.calls[c].id

\* C39: a callback is invoked at most once, never for an item a cancel
\* took, for an item added with an asynchronous result only after a
\* complete took it and then with the result of that complete, and
\* n_queued is the length of the work list
C39_CallbackOnce ==
    /\ \A c, d \in 1..Len(wq.calls) : wq.calls[c].id = wq.calls[d].id => c = d
    /\ \A c \in 1..Len(wq.calls) :
           /\ ~wq.added[wq.calls[c].id].cancelled
           /\ SPA_RESULT_IS_ASYNC(wq.added[wq.calls[c].id].res) =>
                  wq.added[wq.calls[c].id].completed = << wq.calls[c].res >>
    /\ wq.n_queued = Len(wq.work_list)

\* an asynchronous item was completed and called, another was cancelled
\* and has left the list
C39_Witness ==
    /\ \E c \in 1..Len(wq.calls) :
           SPA_RESULT_IS_ASYNC(wq.added[wq.calls[c].id].res)
    /\ \E id \in 1..Len(wq.added) : wq.added[id].cancelled /\ ~OnList(id)

\* the item of identifier id does not wait for a completion and neither
\* does any item before it
Ready(id) ==
    \E n \in 1..Len(wq.work_list) :
        /\ wq.work_list[n].id = id
        /\ \A m \in 1..n : wq.work_list[m].seq = SPA_ID_INVALID

\* C40: with every wakeup dispatched, an item that does not wait for a
\* completion, with no waiting item before it, leaves the work list
C40_ReadyItemsLeave ==
    \A id \in 1..MaxAdds : Ready(id) ~> ~OnList(id)

\* an item added with -EBUSY behind a waiting item has left the list
C40_Witness ==
    \E id \in 2..Len(wq.added) :
        /\ wq.added[id].res = -EBUSY
        /\ SPA_RESULT_IS_ASYNC(wq.added[id - 1].res)
        /\ ~OnList(id)

====
